---- MODULE Spec2Model ----
(***************************************************************************)
(* Model of the test-discovery-and-execution engine of sweetpad            *)
(* (TestingManager and XcodebuildTestRunContext).                          *)
(*                                                                         *)
(* Strings are finite sequences of atoms.  An atom is an indivisible piece *)
(* of text: the separators ":" and "." that the code splits ids on, the    *)
(* suffix "Tests" that isValidTestItem / getTestTarget look for, and word  *)
(* pieces such as "Meal" or "testA".  Concatenation, split, endsWith,      *)
(* startsWith and includes are the sequence operations.                    *)
(***************************************************************************)
EXTENDS Naturals, Sequences, FiniteSets, TLC

(***************************************************************************)
(* Bounds of the model.                                                    *)
(***************************************************************************)
\* longest selection (request.include) a run request carries
MaxSel == 2
\* most output lines the external tool writes during one run request
MaxLines == 2
\* most output lines of the single invocation of a parsing run
MaxStreamLines == 3
\* longest selection of a planning run
MaxQueueSel == 3
\* longest queue of a resolution run
MaxResolveQueue == 2
\* most file events of a discovery run
MaxEvents == 2
\* most calls of discoverUITests under way at once
MaxScans == 2
\* most TestPlanReference elements of a scheme file
MaxReferences == 3

(***************************************************************************)
(* String helpers (JavaScript String.prototype).                           *)
(***************************************************************************)
Colon == ":"
Dot == "."
Slash == "/"

RECURSIVE IndexOf(_, _, _)
\* s.indexOf(sep, from) for a one-atom separator; 0 when absent (1-based)
IndexOf(s, sep, from) ==
  IF from > Len(s) THEN 0
  ELSE IF s[from] = sep THEN from
  ELSE IndexOf(s, sep, from + 1)

RECURSIVE split(_, _)
\* s.split(sep): the pieces between the separators, at least one piece
split(s, sep) ==
  LET i == IndexOf(s, sep, 1) IN
  IF i = 0 THEN <<s>>
  ELSE <<SubSeq(s, 1, i - 1)>> \o split(SubSeq(s, i + 1, Len(s)), sep)

endsWith(s, suffix) ==
  /\ Len(suffix) <= Len(s)
  /\ SubSeq(s, Len(s) - Len(suffix) + 1, Len(s)) = suffix

startsWith(s, prefix) ==
  /\ Len(prefix) <= Len(s)
  /\ SubSeq(s, 1, Len(prefix)) = prefix

includes(s, atom) == IndexOf(s, atom, 1) # 0

\* the elements of a sequence
Range(s) == {s[i] : i \in 1..Len(s)}

\* JavaScript's undefined, for values that are strings otherwise
undefined == <<"undefined">>


(***************************************************************************)
(* The test tree, as discoverUITests builds it from the files under        *)
(* UITests/<domain>/<testType>/.  DiscoveredTestTypes lists the            *)
(* directories that hold a test file, DiscoveredClasses the classes the    *)
(* scan recognizes, both in file order.  The directory Helpers does not    *)
(* end in Tests and holds no test class; two classes share the method      *)
(* name testA.                                                             *)
(***************************************************************************)
DiscoveredTestTypes ==
  << [domain |-> <<"Meal">>, testType |-> <<"Smoke", "Tests">>],
     [domain |-> <<"Meal">>, testType |-> <<"Helpers">>] >>

DiscoveredClasses ==
  << [domain |-> <<"Meal">>, testType |-> <<"Smoke", "Tests">>,
      className |-> <<"Foo">>,
      methods |-> << <<"testA">>, <<"testB">>, <<"testC">> >>],
     [domain |-> <<"Meal">>, testType |-> <<"Smoke", "Tests">>,
      className |-> <<"Bar">>,
      methods |-> << <<"testA">> >>] >>

\* ids, as createTestItem is given them
domainId(domain) == domain
testTypeId(domain, testType) == domain \o <<Colon>> \o testType
classId(c) == c.domain \o <<Colon>> \o c.testType \o <<Colon>> \o c.className
methodId(c, testName) == classId(c) \o <<Dot>> \o testName

DomainIds ==
  {domainId(DiscoveredTestTypes[i].domain) : i \in 1..Len(DiscoveredTestTypes)}
TestTypeIds ==
  {testTypeId(DiscoveredTestTypes[i].domain, DiscoveredTestTypes[i].testType) :
      i \in 1..Len(DiscoveredTestTypes)}
ClassIds == {classId(DiscoveredClasses[i]) : i \in 1..Len(DiscoveredClasses)}
MethodIds ==
  UNION {{methodId(c, c.methods[j]) : j \in 1..Len(c.methods)} :
           c \in Range(DiscoveredClasses)}

\* every node of the tree
Nodes == DomainIds \cup TestTypeIds \cup ClassIds \cup MethodIds

\* controller.items: the roots, in insertion order (one domain in this tree)
RootItems == <<domainId(DiscoveredTestTypes[1].domain)>>

\* this.testItems.get(test): the TestItemContext type, set for class and
\* method items only
testItemType(id) ==
  IF id \in ClassIds THEN "class"
  ELSE IF id \in MethodIds THEN "method"
  ELSE "undefined"

\* test.children of a node, as ids in insertion order
children(id) ==
  IF id \in ClassIds
    THEN LET c == DiscoveredClasses[CHOOSE i \in 1..Len(DiscoveredClasses) :
                                      classId(DiscoveredClasses[i]) = id]
         IN [j \in 1..Len(c.methods) |-> methodId(c, c.methods[j])]
  ELSE IF id \in TestTypeIds
    THEN LET cs == SelectSeq(DiscoveredClasses,
                     LAMBDA c : testTypeId(c.domain, c.testType) = id)
         IN [j \in 1..Len(cs) |-> classId(cs[j])]
  ELSE IF id \in DomainIds
    THEN LET ts == SelectSeq(DiscoveredTestTypes, LAMBDA t : domainId(t.domain) = id)
         IN [j \in 1..Len(ts) |-> testTypeId(ts[j].domain, ts[j].testType)]
  ELSE <<>>

\* the nodes strictly below a node
RECURSIVE descendants(_)
descendants(id) ==
  Range(children(id)) \cup UNION {descendants(k) : k \in Range(children(id))}

(***************************************************************************)
(* Run-request planning.                                                   *)
(***************************************************************************)
\* a TestRunRequest: include is undefined (run everything) or a list of nodes
NoInclude == <<undefined>>

\* prepareQueueForRun without its filter: methods stay beside their class
prepareQueueForRun_Unfiltered(request) ==
  IF request # NoInclude THEN request ELSE RootItems

prepareQueueForRun(request) ==
  LET queue == IF request # NoInclude THEN request ELSE RootItems
      keep(test) ==
        LET parts == split(test, Dot) IN
        IF Len(parts) < 2 \/ parts[2] = <<>> THEN TRUE
        ELSE ~(\E i \in 1..Len(queue) : queue[i] = parts[1])
  IN SelectSeq(queue, keep)

\* isValidTestItem that counts the segments and forgets the Tests suffix
isValidTestItem_SegmentsOnly(test) == Len(split(test, Colon)) >= 2

\* isValidTestItem that lets an id of one segment through
isValidTestItem_RootsToo(test) ==
  LET parts == split(test, Colon) IN
  Len(parts) >= 1 /\ (Len(parts) >= 2 => endsWith(parts[2], <<"Tests">>))

isValidTestItem(test) ==
  LET parts == split(test, Colon) IN
  Len(parts) >= 2 /\ endsWith(parts[2], <<"Tests">>)

getTestTarget(testId) ==
  LET parts == split(testId, Colon) IN
  IF Len(parts) >= 2 /\ parts[1] # <<>> /\ parts[2] # <<>>
       /\ endsWith(parts[2], <<"Tests">>)
    THEN parts[1] \o parts[2]
    ELSE undefined

(***************************************************************************)
(* XcodebuildTestRunContext.  methodTests is the key list of the Map, in   *)
(* insertion order; inlineErrorMap maps every key to its stored error or   *)
(* to NoError.                                                             *)
(***************************************************************************)
NoError == [fileName |-> undefined, lineNumber |-> 0, message |-> undefined]

RECURSIVE mapKeys(_)
\* the keys of a Map after set() of each entry in turn: a repeated key keeps
\* its first position
mapKeys(ids) ==
  IF ids = <<>> THEN <<>>
  ELSE LET front == mapKeys(SubSeq(ids, 1, Len(ids) - 1))
           last == ids[Len(ids)]
       IN IF last \in Range(front) THEN front ELSE Append(front, last)

newRunContext(methodTests) ==
  [methodTests |-> mapKeys(methodTests),
   processedMethodTests |-> {},
   failedMethodTests |-> {},
   inlineErrorMap |-> [id \in Range(methodTests) |-> NoError]]

getMethodTest(ctx, methodTestId) ==
  IF methodTestId \in Range(ctx.methodTests) THEN methodTestId ELSE undefined

addProcessedMethodTest(ctx, methodTestId) ==
  [ctx EXCEPT !.processedMethodTests = @ \cup {methodTestId}]

addFailedMethodTest(ctx, methodTestId) ==
  [ctx EXCEPT !.failedMethodTests = @ \cup {methodTestId}]

\* addInlineError that keeps the error a method already has
addInlineError_KeepFirst(ctx, methodTestId, error) ==
  IF ctx.inlineErrorMap[methodTestId] # NoError THEN ctx
  ELSE [ctx EXCEPT !.inlineErrorMap[methodTestId] = error]

addInlineError(ctx, methodTestId, error) ==
  [ctx EXCEPT !.inlineErrorMap[methodTestId] = error]

getInlineError(ctx, methodTestId) == ctx.inlineErrorMap[methodTestId]

isMethodTestProcessed(ctx, methodTestId) ==
  methodTestId \in ctx.processedMethodTests

\* getUnprocessedMethodTests without its filter
getUnprocessedMethodTests_All(ctx) == ctx.methodTests

getUnprocessedMethodTests(ctx) ==
  SelectSeq(ctx.methodTests, LAMBDA id : id \notin ctx.processedMethodTests)

\* getOverallStatus with its two tests in the other order
getOverallStatus_ProcessedFirst(ctx) ==
  IF Cardinality(ctx.processedMethodTests) = Len(ctx.methodTests) THEN "passed"
  ELSE IF Cardinality(ctx.failedMethodTests) > 0 THEN "failed"
  ELSE "skipped"

getOverallStatus(ctx) ==
  IF Cardinality(ctx.failedMethodTests) > 0 THEN "failed"
  ELSE IF Cardinality(ctx.processedMethodTests) = Len(ctx.methodTests) THEN "passed"
  ELSE "skipped"

findTestIdByMethodName(ctx, methodName) ==
  LET hits == SelectSeq(ctx.methodTests,
                        LAMBDA id : endsWith(id, <<Dot>> \o methodName))
  IN IF hits = <<>> THEN undefined ELSE Head(hits)

hasFailedMethodTest(ctx, methodTestId) == methodTestId \in ctx.failedMethodTests


(***************************************************************************)
(* vscode.TestRun: the state and the message last reported for each node.  *)
(***************************************************************************)
NoMessage == [text |-> undefined, fileName |-> undefined, line |-> 0]

\* new vscode.TestMessage(text), without a location
TestMessage(text) == [text |-> text, fileName |-> undefined, line |-> 0]

newTestRun == [id \in Nodes |-> [state |-> "none", message |-> NoMessage]]

started(run, test) == [run EXCEPT ![test].state = "started"]
passed(run, test) == [run EXCEPT ![test].state = "passed"]
skipped(run, test) == [run EXCEPT ![test].state = "skipped"]
failed(run, test, message) ==
  [run EXCEPT ![test] = [state |-> "failed", message |-> message]]

\* the same report for every node of a set of distinct nodes
startedAll(run, tests) ==
  [id \in Nodes |-> IF id \in tests THEN started(run, id)[id] ELSE run[id]]
skippedAll(run, tests) ==
  [id \in Nodes |-> IF id \in tests THEN skipped(run, id)[id] ELSE run[id]]
failedAll(run, tests, message) ==
  [id \in Nodes |-> IF id \in tests THEN failed(run, id, message)[id] ELSE run[id]]

(***************************************************************************)
(* Output stream parser.                                                   *)
(***************************************************************************)
GenericFailure == <<"Test failed (error message is not extracted).">>

\* getMethodError keeping the 1-based line of the stored error
getMethodError_OneBasedLine(methodTestId, runContext) ==
  LET error == getInlineError(runContext, methodTestId) IN
  IF error # NoError
    THEN [text |-> error.message, fileName |-> error.fileName,
          line |-> error.lineNumber]
    ELSE TestMessage(GenericFailure)

getMethodError(methodTestId, runContext) ==
  LET error == getInlineError(runContext, methodTestId) IN
  IF error # NoError
    THEN [text |-> error.message, fileName |-> error.fileName,
          line |-> error.lineNumber - 1]
    ELSE TestMessage(GenericFailure)

\* what a regular expression captured from a line; NoMatch when it does not
\* match
NoMatch == [matched |-> FALSE]

\* the status branch with a failed line that forgets addProcessedMethodTest
methodStatus_FailedNotProcessed(match, st) ==
  LET methodTestId == findTestIdByMethodName(st.runContext, match.methodName) IN
  IF methodTestId = undefined THEN st
  ELSE IF startsWith(match.status, <<"started">>)
    THEN [st EXCEPT !.testRun = started(@, methodTestId)]
  ELSE IF startsWith(match.status, <<"passed">>)
    THEN [testRun |-> passed(st.testRun, methodTestId),
          runContext |-> addProcessedMethodTest(st.runContext, methodTestId)]
  ELSE IF startsWith(match.status, <<"failed">>)
    THEN [testRun |-> failed(st.testRun, methodTestId,
                             getMethodError(methodTestId, st.runContext)),
          runContext |-> addFailedMethodTest(st.runContext, methodTestId)]
  ELSE st

\* the status branch with a passed line that forgets addProcessedMethodTest
methodStatus_PassedNotProcessed(match, st) ==
  LET methodTestId == findTestIdByMethodName(st.runContext, match.methodName) IN
  IF methodTestId = undefined THEN st
  ELSE IF startsWith(match.status, <<"started">>)
    THEN [st EXCEPT !.testRun = started(@, methodTestId)]
  ELSE IF startsWith(match.status, <<"passed">>)
    THEN [st EXCEPT !.testRun = passed(@, methodTestId)]
  ELSE IF startsWith(match.status, <<"failed">>)
    THEN [testRun |-> failed(st.testRun, methodTestId,
                             getMethodError(methodTestId, st.runContext)),
          runContext |-> addFailedMethodTest(
                           addProcessedMethodTest(st.runContext, methodTestId),
                           methodTestId)]
  ELSE st

\* the status branch with a passed line that a recorded failure blocks
methodStatus_FailedIsSticky(match, st) ==
  LET methodTestId == findTestIdByMethodName(st.runContext, match.methodName) IN
  IF methodTestId = undefined THEN st
  ELSE IF startsWith(match.status, <<"started">>)
    THEN [st EXCEPT !.testRun = started(@, methodTestId)]
  ELSE IF startsWith(match.status, <<"passed">>)
    THEN IF hasFailedMethodTest(st.runContext, methodTestId) THEN st
         ELSE [testRun |-> passed(st.testRun, methodTestId),
               runContext |-> addProcessedMethodTest(st.runContext, methodTestId)]
  ELSE IF startsWith(match.status, <<"failed">>)
    THEN [testRun |-> failed(st.testRun, methodTestId,
                             getMethodError(methodTestId, st.runContext)),
          runContext |-> addFailedMethodTest(
                           addProcessedMethodTest(st.runContext, methodTestId),
                           methodTestId)]
  ELSE st

\* the status branch with a started line that counts the method as processed
methodStatus_StartedIsProcessed(match, st) ==
  LET methodTestId == findTestIdByMethodName(st.runContext, match.methodName) IN
  IF methodTestId = undefined THEN st
  ELSE IF startsWith(match.status, <<"started">>)
    THEN [testRun |-> started(st.testRun, methodTestId),
          runContext |-> addProcessedMethodTest(st.runContext, methodTestId)]
  ELSE IF startsWith(match.status, <<"passed">>)
    THEN [testRun |-> passed(st.testRun, methodTestId),
          runContext |-> addProcessedMethodTest(st.runContext, methodTestId)]
  ELSE IF startsWith(match.status, <<"failed">>)
    THEN [testRun |-> failed(st.testRun, methodTestId,
                             getMethodError(methodTestId, st.runContext)),
          runContext |-> addFailedMethodTest(
                           addProcessedMethodTest(st.runContext, methodTestId),
                           methodTestId)]
  ELSE st

\* the status branch with a passed line that takes the method out of failed
methodStatus_PassedClearsFailed(match, st) ==
  LET methodTestId == findTestIdByMethodName(st.runContext, match.methodName) IN
  IF methodTestId = undefined THEN st
  ELSE IF startsWith(match.status, <<"started">>)
    THEN [st EXCEPT !.testRun = started(@, methodTestId)]
  ELSE IF startsWith(match.status, <<"passed">>)
    THEN [testRun |-> passed(st.testRun, methodTestId),
          runContext |->
            [addProcessedMethodTest(st.runContext, methodTestId)
               EXCEPT !.failedMethodTests = @ \ {methodTestId}]]
  ELSE IF startsWith(match.status, <<"failed">>)
    THEN [testRun |-> failed(st.testRun, methodTestId,
                             getMethodError(methodTestId, st.runContext)),
          runContext |-> addFailedMethodTest(
                           addProcessedMethodTest(st.runContext, methodTestId),
                           methodTestId)]
  ELSE st

\* the status branch shared by the two dialects
methodStatus(match, st) ==
  LET methodTestId == findTestIdByMethodName(st.runContext, match.methodName) IN
  IF methodTestId = undefined THEN st
  ELSE IF getMethodTest(st.runContext, methodTestId) = undefined THEN st
  ELSE IF startsWith(match.status, <<"started">>)
    THEN [st EXCEPT !.testRun = started(@, methodTestId)]
  ELSE IF startsWith(match.status, <<"passed">>)
    THEN [testRun |-> passed(st.testRun, methodTestId),
          runContext |-> addProcessedMethodTest(st.runContext, methodTestId)]
  ELSE IF startsWith(match.status, <<"failed">>)
    THEN [testRun |-> failed(st.testRun, methodTestId,
                             getMethodError(methodTestId, st.runContext)),
          runContext |-> addFailedMethodTest(
                           addProcessedMethodTest(st.runContext, methodTestId),
                           methodTestId)]
  ELSE st

\* parseOutputLine that tries the inline error pattern before the two status
\* patterns
parseOutputLine_InlineFirst(line, st) ==
  IF line.inline.matched
    THEN LET testId == findTestIdByMethodName(st.runContext, line.inline.methodName)
         IN IF testId = undefined THEN st
            ELSE [st EXCEPT !.runContext =
                    addInlineError(@, testId,
                                   [fileName |-> line.inline.filePath,
                                    lineNumber |-> line.inline.lineNumber,
                                    message |-> line.inline.errorMessage])]
  ELSE IF line.ios.matched THEN methodStatus(line.ios, st)
  ELSE IF line.macos.matched THEN methodStatus(line.macos, st)
  ELSE st

\* st = [testRun, runContext]; the value is st after the line
parseOutputLine(line, st) ==
  IF line.ios.matched THEN methodStatus(line.ios, st)
  ELSE IF line.macos.matched THEN methodStatus(line.macos, st)
  ELSE IF line.inline.matched
    THEN LET testId == findTestIdByMethodName(st.runContext, line.inline.methodName)
         IN IF testId = undefined THEN st
            ELSE [st EXCEPT !.runContext =
                    addInlineError(@, testId,
                                   [fileName |-> line.inline.filePath,
                                    lineNumber |-> line.inline.lineNumber,
                                    message |-> line.inline.errorMessage])]
  ELSE st

(***************************************************************************)
(* The output lines the external tool may produce.                         *)
(***************************************************************************)
\* method names a line may carry: those of the tree and one that is not
LineMethodNames == {<<"testA">>, <<"testB">>, <<"testC">>, <<"testZ">>}

\* what follows the quoted test name on a status line
LineStatuses ==
  {<<"started", ".">>, <<"passed", " (0.001 seconds).">>,
   <<"failed", " (0.001 seconds).">>, <<"skipped", " (0.001 seconds).">>}

StatusMatches ==
  {[matched |-> TRUE, methodName |-> m, status |-> s] :
     m \in LineMethodNames, s \in LineStatuses}

InlineMatches ==
  {[matched |-> TRUE, filePath |-> e[1], lineNumber |-> e[2], methodName |-> m,
    errorMessage |-> e[3]] :
     m \in LineMethodNames,
     e \in {<< <<"/path/File.swift">>, 10, <<"XCTAssertEqual failed">> >>,
            << <<"/path/Other.swift">>, 1, <<"XCTAssertTrue failed">> >>}}

\* a match of a status pattern, and of the inline error pattern
statusMatch(methodName, status) ==
  [matched |-> TRUE, methodName |-> methodName, status |-> status]
inlineMatch(methodName) ==
  [matched |-> TRUE, filePath |-> <<"/path/Mixed.swift">>, lineNumber |-> 7,
   methodName |-> methodName, errorMessage |-> <<"quoted output">>]

\* lines that more than one pattern matches: an inline error line whose
\* message quotes status lines of the tool
MixedLines ==
  {[ios |-> statusMatch(<<"testA">>, <<"passed", " (0.001 seconds).">>),
    macos |-> statusMatch(<<"testB">>, <<"failed", " (0.001 seconds).">>),
    inline |-> inlineMatch(<<"testC">>)],
   [ios |-> NoMatch,
    macos |-> statusMatch(<<"testB">>, <<"failed", " (0.001 seconds).">>),
    inline |-> inlineMatch(<<"testA">>)],
   [ios |-> statusMatch(<<"testZ">>, <<"passed", " (0.001 seconds).">>),
    macos |-> statusMatch(<<"testA">>, <<"passed", " (0.001 seconds).">>),
    inline |-> inlineMatch(<<"testB">>)]}

OutputLines ==
  {[ios |-> x, macos |-> NoMatch, inline |-> NoMatch] : x \in StatusMatches}
    \cup {[ios |-> NoMatch, macos |-> x, inline |-> NoMatch] : x \in StatusMatches}
    \cup {[ios |-> NoMatch, macos |-> NoMatch, inline |-> x] : x \in InlineMatches}
    \cup {[ios |-> NoMatch, macos |-> NoMatch, inline |-> NoMatch]}
    \cup MixedLines


(***************************************************************************)
(* Target resolver.  A path is a string whose separators are Slash atoms.  *)
(***************************************************************************)
RECURSIVE lastIndexOf(_, _, _)
\* s.lastIndexOf(sep, from) for a one-atom separator; 0 when absent
lastIndexOf(s, sep, from) ==
  IF from < 1 THEN 0
  ELSE IF s[from] = sep THEN from
  ELSE lastIndexOf(s, sep, from - 1)

\* path.dirname(p)
dirname(p) ==
  LET i == lastIndexOf(p, Slash, Len(p)) IN
  IF i <= 1 THEN <<Slash>> ELSE SubSeq(p, 1, i - 1)

\* path.join(dir, name)
join(dir, name) == dir \o <<Slash>> \o name

\* path.relative(from, to), for a directory from that to lies in
relative(from, to) ==
  IF startsWith(to, from \o <<Slash>>)
    THEN SubSeq(to, Len(from) + 2, Len(to))
    ELSE <<>>

\* getWorkspacePath()
WorkspacePath == <<Slash, "ws">>

RECURSIVE ancestorsUpTo(_, _)
\* the loop of getAncestorsPaths from currentPath on
ancestorsUpTo(currentPath, parentPath) ==
  IF currentPath = parentPath THEN <<parentPath>>
  ELSE <<currentPath>> \o ancestorsUpTo(dirname(currentPath), parentPath)

\* the paths getAncestorsPaths yields, in order
getAncestorsPaths(parentPath, childPath) ==
  IF ~startsWith(childPath, parentPath) THEN <<>>
  ELSE ancestorsUpTo(dirname(childPath), parentPath)

\* test.uri.fsPath of the item discoverUITests creates with this id: the
\* directory of a domain or of a test type, the file of a class and of its
\* methods (each class in the file of its name)
fsPath(id) ==
  LET parts == split(id, Colon)
      uiTestsPath == join(WorkspacePath, <<"UITests">>)
  IN IF Len(parts) = 1 THEN join(uiTestsPath, parts[1])
     ELSE IF Len(parts) = 2 THEN join(join(uiTestsPath, parts[1]), parts[2])
     ELSE join(join(join(uiTestsPath, parts[1]), parts[2]),
               split(parts[3], Dot)[1] \o <<".swift">>)

\* this.testItems.get(test) is set: class and method items only
hasTestItemContext(id) == Len(split(id, Colon)) = 3

\* a file system is [packages, dump]: the directories that hold a
\* Package.swift and what "swift package dump-package" does in them, which
\* is [threw, hasTargets, targets]: the command failed, or its JSON has a
\* targets array or none
isFileExists(fs, filePath) ==
  filePath \in {join(dir, <<"Package.swift">>) : dir \in fs.packages}

\* the names of the test targets whose directory the path starts with
testTargetNames(targets, ancestorPath, testPath) ==
  LET covering ==
        SelectSeq(SelectSeq(targets, LAMBDA target : target.type = "test"),
          LAMBDA target :
            LET targetPath ==
                  IF target.path # undefined
                    THEN join(ancestorPath, target.path)
                    ELSE join(join(ancestorPath, <<"Tests">>), target.name)
            IN startsWith(testPath, targetPath))
  IN [i \in 1..Len(covering) |-> covering[i].name]

\* relativePath.match(/^Tests\/([^/]+)/): the first group, or undefined
matchTestsFolder(relativePath) ==
  IF /\ Len(relativePath) >= 3
     /\ relativePath[1] = "Tests"
     /\ relativePath[2] = Slash
     /\ relativePath[3] # Slash
    THEN LET next == IndexOf(relativePath, Slash, 3) IN
         SubSeq(relativePath, 3, IF next = 0 THEN Len(relativePath) ELSE next - 1)
    ELSE undefined

\* the try block with the path convention applied to an ambiguous answer too
queryPackage_FallbackWhenAmbiguous(fs, ancestorPath, testPath) ==
  LET names == testTargetNames(fs.dump.targets, ancestorPath, testPath) IN
  IF fs.dump.threw \/ ~fs.dump.hasTargets
    THEN matchTestsFolder(relative(ancestorPath, testPath))
  ELSE IF Len(names) = 1 THEN names[1]
  ELSE matchTestsFolder(relative(ancestorPath, testPath))

\* the try and catch blocks: the target name they return, or undefined when
\* they fall through.  The try block throws when the command fails and when
\* the dump has no targets (length of undefined).
queryPackage(fs, ancestorPath, testPath) ==
  LET names == testTargetNames(fs.dump.targets, ancestorPath, testPath) IN
  IF fs.dump.threw \/ ~fs.dump.hasTargets
    THEN matchTestsFolder(relative(ancestorPath, testPath))
  ELSE IF Len(names) = 1 THEN names[1]
  ELSE undefined

\* pathCache, a Map from paths to names
mapGet(map, key) == IF key \in DOMAIN map THEN map[key] ELSE undefined
mapSet(map, key, value) ==
  [k \in DOMAIN map \cup {key} |-> IF k = key THEN value ELSE map[k]]

\* the return statements: the name is cached, stored on the item's context
\* and returned from resolveSPMTestingTarget
returnTarget(r, test, ancestorPath, name) ==
  [r EXCEPT !.pathCache = mapSet(@, ancestorPath, name),
            !.spmTarget[test] = name,
            !.result = name,
            !.returned = TRUE]

\* the loop body with the path convention applied where no manifest is
tryAncestor_FallbackWithoutManifest(fs, test, ancestorPath, r) ==
  LET cachedTarget == mapGet(r.pathCache, ancestorPath)
      hit == IF cachedTarget # undefined
               THEN [r EXCEPT !.spmTarget[test] = cachedTarget]
               ELSE r
      byPath == matchTestsFolder(relative(ancestorPath, fsPath(test)))
      name == queryPackage(fs, ancestorPath, fsPath(test))
  IN IF cachedTarget # undefined /\ cachedTarget = <<>>
       THEN [r |-> r, ctl |-> "continue"]
     ELSE IF ~isFileExists(fs, join(ancestorPath, <<"Package.swift">>))
       THEN IF byPath # undefined
              THEN [r |-> returnTarget(hit, test, ancestorPath, byPath),
                    ctl |-> "return"]
              ELSE [r |-> [hit EXCEPT !.pathCache = mapSet(@, ancestorPath, <<>>)],
                    ctl |-> "continue"]
     ELSE IF name # undefined
       THEN [r |-> returnTarget(hit, test, ancestorPath, name), ctl |-> "return"]
     ELSE [r |-> [hit EXCEPT !.pathCache = mapSet(@, ancestorPath, <<>>)],
           ctl |-> "break"]

\* the body of the loop over the ancestors, for one ancestor: the state of
\* the resolution after it and how the loop goes on
tryAncestor(fs, test, ancestorPath, r) ==
  LET cachedTarget == mapGet(r.pathCache, ancestorPath)
      hit == IF cachedTarget # undefined
               THEN [r EXCEPT !.spmTarget[test] = cachedTarget]
               ELSE r
      name == queryPackage(fs, ancestorPath, fsPath(test))
  IN IF cachedTarget # undefined /\ cachedTarget = <<>>
       THEN [r |-> r, ctl |-> "continue"]
     ELSE IF ~isFileExists(fs, join(ancestorPath, <<"Package.swift">>))
       THEN [r |-> [hit EXCEPT !.pathCache = mapSet(@, ancestorPath, <<>>)],
             ctl |-> "continue"]
     ELSE IF name # undefined
       THEN [r |-> returnTarget(hit, test, ancestorPath, name), ctl |-> "return"]
     ELSE [r |-> [hit EXCEPT !.pathCache = mapSet(@, ancestorPath, <<>>)],
           ctl |-> "break"]

RECURSIVE searchAncestors(_, _, _, _)
\* the loop over the ancestors of one item
searchAncestors(fs, test, ancestors, r) ==
  IF ancestors = <<>> THEN r
  ELSE LET step == tryAncestor(fs, test, Head(ancestors), r) IN
       IF step.ctl = "continue"
         THEN searchAncestors(fs, test, Tail(ancestors), step.r)
         ELSE step.r

RECURSIVE resolveEach(_, _, _)
\* the loop over the queue; searched lists the items whose ancestors the
\* loop went through
resolveEach(fs, tests, r) ==
  IF tests = <<>> \/ r.returned THEN r
  ELSE LET test == Head(tests) IN
       IF fsPath(test) = undefined \/ ~hasTestItemContext(test)
         THEN resolveEach(fs, Tail(tests), r)
         ELSE resolveEach(fs, Tail(tests),
                searchAncestors(fs, test,
                  getAncestorsPaths(WorkspacePath, fsPath(test)),
                  [r EXCEPT !.searched = Append(@, test)]))

\* resolveSPMTestingTarget({queue}): the targets stored on the contexts, the
\* cache at the end, the value returned
resolveSPMTestingTarget(fs, tests, targets) ==
  resolveEach(fs, tests,
    [pathCache |-> <<>>, spmTarget |-> targets, result |-> undefined,
     returned |-> FALSE, searched |-> <<>>])


(***************************************************************************)
(* Test discovery.  A file on disk is [exists, classes]; classes are the   *)
(* matches of the class pattern in its text, in order, each                *)
(* [className, bases, hasBody, methods]: the inheritance list, whether     *)
(* extractCodeBlock finds the class body, and the matches of the test      *)
(* function pattern in it.  A test item is [id, label, uri, type,          *)
(* children]; type is the TestItemContext type, "none" without a context.  *)
(***************************************************************************)
UITestsPath == join(WorkspacePath, <<"UITests">>)

\* controller.createTestItem(id, label, uri)
newTestItem(id, label, uri, type) ==
  [id |-> id, label |-> label, uri |-> uri, type |-> type, children |-> <<>>]

\* position in a collection of the item with an id, 0 when there is none
RECURSIVE indexOfId(_, _, _)
indexOfId(coll, id, from) ==
  IF from > Len(coll) THEN 0
  ELSE IF coll[from].id = id THEN from
  ELSE indexOfId(coll, id, from + 1)

\* TestItemCollection.add(item): an item of the same id is replaced
collectionAdd(coll, item) ==
  LET i == indexOfId(coll, item.id, 1) IN
  IF i = 0 THEN Append(coll, item) ELSE [coll EXCEPT ![i] = item]

\* controller.items.replace(items) keeping the items already shown
replaceItems_Merge(coll, items) ==
  coll \o SelectSeq(items, LAMBDA item : indexOfId(coll, item.id, 1) = 0)

\* controller.items.replace(items) that leaves a tree that is not empty
replaceItems_KeepNonEmpty(coll, items) == IF coll # <<>> THEN coll ELSE items

\* TestItemCollection.replace(items)
replaceItems(coll, items) == items

\* inheritanceList.some(base => base === 'BaseTest')
inheritsBaseTest(decl) == \E i \in 1..Len(decl.bases) : decl.bases[i] = <<"BaseTest">>

\* hasBaseTestClass(document)
hasBaseTestClass(file) == \E i \in 1..Len(file.classes) : inheritsBaseTest(file.classes[i])

RECURSIVE addMethods(_, _, _, _)
\* the loop over the test functions of a class body: classTestItem.children.add
addMethods(classItem, methods, uri, type) ==
  IF methods = <<>> THEN classItem
  ELSE addMethods(
         [classItem EXCEPT !.children =
            collectionAdd(@, newTestItem(classItem.id \o <<Dot>> \o Head(methods),
                                         Head(methods), uri, type))],
         Tail(methods), uri, type)

\* the test type group given a class item whatever its children hold
addClassToGroup_NoCheck(testTypeGroup, classTestItem) ==
  [testTypeGroup EXCEPT !.children = Append(@, classTestItem)]

\* the class item is added to its test type group unless the group has an
\* item of that id
addClassToGroup(testTypeGroup, classTestItem) ==
  IF \E i \in 1..Len(testTypeGroup.children) :
       testTypeGroup.children[i].id = classTestItem.id
    THEN testTypeGroup
    ELSE [testTypeGroup EXCEPT !.children = Append(@, classTestItem)]

RECURSIVE addClasses(_, _, _, _, _)
\* the loop over the class matches of a document
addClasses(testTypeGroup, domain, testType, classes, uri) ==
  IF classes = <<>> THEN testTypeGroup
  ELSE LET decl == Head(classes)
           classTestItem ==
             addMethods(newTestItem(classId([domain |-> domain, testType |-> testType,
                                             className |-> decl.className]),
                                    decl.className, uri, "class"),
                        decl.methods, uri, "method")
       IN IF ~inheritsBaseTest(decl) \/ ~decl.hasBody
            THEN addClasses(testTypeGroup, domain, testType, Tail(classes), uri)
            ELSE addClasses(addClassToGroup(testTypeGroup, classTestItem),
                            domain, testType, Tail(classes), uri)

\* the domain groups with a group made for a domain whether it has one or not
withDomainGroup_NoCheck(domainGroups, domain) ==
  Append(domainGroups,
         newTestItem(domainId(domain), domain, join(UITestsPath, domain), "none"))

\* domainGroups with the group of a domain, made when it has none
withDomainGroup(domainGroups, domain) ==
  IF indexOfId(domainGroups, domainId(domain), 1) # 0 THEN domainGroups
  ELSE Append(domainGroups,
              newTestItem(domainId(domain), domain, join(UITestsPath, domain), "none"))

\* a domain group with the group of a test type, made when it has none
withTestTypeGroup(domainGroup, domain, testType) ==
  IF indexOfId(domainGroup.children, testTypeId(domain, testType), 1) # 0
    THEN domainGroup
    ELSE [domainGroup EXCEPT !.children =
            Append(@, newTestItem(testTypeId(domain, testType), testType,
                                  join(join(UITestsPath, domain), testType), "none"))]

\* the path has the expected structure: parts.length >= 3
inStructure(filePath) == Len(split(relative(UITestsPath, filePath), Slash)) >= 3

\* the body of the loop over the test files, for one file of the expected
\* structure whose document was opened
scanFile(domainGroups, filePath, file) ==
  LET parts == split(relative(UITestsPath, filePath), Slash)
      domain == parts[1]
      testType == parts[2]
      groups == withDomainGroup(domainGroups, domain)
      d == indexOfId(groups, domainId(domain), 1)
      domainGroup == withTestTypeGroup(groups[d], domain, testType)
      t == indexOfId(domainGroup.children, testTypeId(domain, testType), 1)
  IN [groups EXCEPT ![d] =
        [domainGroup EXCEPT !.children[t] =
           addClasses(@, domain, testType, file.classes, filePath)]]


RECURSIVE updateClasses(_, _, _)
\* the loop of updateTestItems over the class matches of the document: the
\* class item goes to the roots, its methods below it
updateClasses(coll, classes, uri) ==
  IF classes = <<>> THEN coll
  ELSE LET decl == Head(classes)
           classTestItem == newTestItem(decl.className, decl.className, uri, "class")
       IN IF ~inheritsBaseTest(decl)
            THEN updateClasses(coll, Tail(classes), uri)
          ELSE IF ~decl.hasBody
            THEN updateClasses(collectionAdd(coll, classTestItem), Tail(classes), uri)
          ELSE updateClasses(
                 collectionAdd(coll,
                   addMethods(classTestItem, decl.methods, uri, "method")),
                 Tail(classes), uri)

\* updateTestItems(document) on the roots of the controller
updateTestItems(coll, uri, file) ==
  IF ~endsWith(uri, <<".swift">>) THEN coll
  ELSE updateClasses(SelectSeq(coll, LAMBDA item : item.uri # uri),
                     file.classes, uri)

\* the files a disk may hold, in the order findFiles lists them
FileOrder ==
  << join(join(join(UITestsPath, <<"Meal">>), <<"Smoke", "Tests">>), <<"Foo", ".swift">>),
     join(join(join(UITestsPath, <<"Meal">>), <<"Smoke", "Tests">>), <<"Bar", ".swift">>),
     join(join(join(UITestsPath, <<"Meal">>), <<"Helpers">>), <<"Util", ".swift">>),
     join(join(join(UITestsPath, <<"Meal">>), <<"Smoke", "Tests">>), <<"A", ".swift">>),
     join(join(join(UITestsPath, <<"Meal">>), <<"Smoke", "Tests">>), <<"B", ".swift">>),
     join(join(join(UITestsPath, <<"Pay">>), <<"Flow", "Tests">>), <<"C", ".swift">>),
     join(join(UITestsPath, <<"Pay">>), <<"Shared", ".swift">>),
     join(join(join(UITestsPath, <<"Tests">>), <<"MyApp", "Tests">>), <<"Foo", ".swift">>),
     join(join(join(UITestsPath, <<"Tests">>), <<"Other", "Tests">>), <<"Baz", ".swift">>),
     join(join(join(UITestsPath, <<"Meal", Colon, "Smoke", "Tests">>), <<"Foo">>),
          <<"D", ".swift">>) >>

\* vscode.workspace.findFiles(UITests/**/*.swift) on a disk
findFiles(files) ==
  SelectSeq(FileOrder,
    LAMBDA filePath : /\ filePath \in DOMAIN files
                      /\ files[filePath].exists
                      /\ endsWith(filePath, <<".swift">>)
                      /\ startsWith(filePath, UITestsPath \o <<Slash>>))

RECURSIVE scanFiles(_, _, _)
\* the loop over the test files when no file changes under the scan
scanFiles(domainGroups, testFiles, files) ==
  IF testFiles = <<>> THEN domainGroups
  ELSE scanFiles(IF inStructure(Head(testFiles))
                   THEN scanFile(domainGroups, Head(testFiles), files[Head(testFiles)])
                   ELSE domainGroups,
                 Tail(testFiles), files)

\* the roots discoverUITests leaves on a disk that does not change under it
discoverAll(files) == scanFiles(<<>>, findFiles(files), files)

\* a class of a file that inherits from BaseTest and has a body
testClass(className, methods) ==
  [className |-> className, bases |-> << <<"BaseTest">> >>, hasBody |-> TRUE,
   methods |-> methods]

\* the file of each class of a list of discovered classes, and a file
\* without test classes in each directory of a list of test types that
\* holds none of the classes
diskOf(classes, testTypes) ==
  LET classFiles == {fsPath(classId(c)) : c \in Range(classes)}
      otherFiles ==
        {join(fsPath(testTypeId(t.domain, t.testType)), <<"Util", ".swift">>) :
           t \in {t \in Range(testTypes) :
                    \A c \in Range(classes) :
                      testTypeId(c.domain, c.testType)
                        # testTypeId(t.domain, t.testType)}}
  IN [filePath \in classFiles \cup otherFiles |->
        IF filePath \in classFiles
          THEN LET c == CHOOSE c \in Range(classes) : fsPath(classId(c)) = filePath
               IN [exists |-> TRUE,
                   classes |-> <<testClass(c.className, c.methods)>>]
          ELSE [exists |-> TRUE, classes |-> <<>>]]


(***************************************************************************)
(* State of the TestingManager during one run request.                     *)
(***************************************************************************)
VARIABLES
  pc,            \* where the run-profile handler is suspended
  profile,       \* "build" (buildAndRunTests) or "nobuild" (runTestsWithoutBuilding)
  request,       \* request.include, or NoInclude
  token,         \* token.isCancellationRequested
  queue,         \* the queue prepareQueueForRun returned
  validTests,    \* the queue filtered by isValidTestItem
  index,         \* position in validTests of the item being run (build profile)
  kind,          \* path of the invocation under way: "method", "class", "batch"
  testRun,       \* vscode.TestRun: state and message per node
  runContext,    \* the XcodebuildTestRunContext of the invocation under way
  invocations,   \* the xcodebuild invocations issued, in order
  lines,         \* number of output lines consumed during the request
  currentTestId, \* this._currentTestId
  finished,      \* log: the invocations that have returned, with their exit
  fileSystem,    \* the Package.swift files of the workspace and their dump
  resolution,    \* the spmTarget of the contexts and the last resolution
  disk,          \* the Swift files of the workspace and their classes
  controllerItems, \* controller.items: the roots of the test tree
  documentChangeDebounceTimer, \* the timer is pending
  scans,         \* the calls of discoverUITests under way, oldest first
  scanLog,       \* log: the calls of discoverUITests that have ended
  fsEvents,      \* number of file events so far
  testPlans,     \* TestPlansManager._testPlans
  selectedTestPlan, \* TestPlansManager._selectedTestPlan
  refreshExit    \* the path the last call of refresh left on

vars == <<pc, profile, request, token, queue, validTests, index, kind, testRun,
          runContext, invocations, lines, currentTestId, finished, fileSystem,
          resolution, disk, controllerItems, documentChangeDebounceTimer, scans,
          scanLog, fsEvents, testPlans, selectedTestPlan, refreshExit>>

\* the state of the test plans
planVars == <<testPlans, selectedTestPlan, refreshExit>>

\* the state of test discovery, and that of the run requests
discoveryVars ==
  <<disk, controllerItems, documentChangeDebounceTimer, scans, scanLog, fsEvents>>
runVars ==
  <<pc, profile, request, token, queue, validTests, index, kind, testRun,
    runContext, invocations, lines, currentTestId, finished, fileSystem,
    resolution>>

(***************************************************************************)
(* Test plans (TestPlansManager).  A TestPlan is kept as its path and its  *)
(* name; its type, configurations and testTarget play no part in the       *)
(* selection.  The context is set and the workspace has a path.            *)
(***************************************************************************)
\* no TestPlan: the undefined of _selectedTestPlan, whose ?.path is undefined
NoPlan == [path |-> undefined, name |-> undefined]

\* path.basename(p, ext)
basename(p, ext) ==
  LET parts == split(p, Slash)
      last == parts[Len(parts)]
  IN IF endsWith(last, ext) /\ Len(last) > Len(ext)
       THEN SubSeq(last, 1, Len(last) - Len(ext))
       ELSE last

\* the .xctestplan files of the workspace, by their path relative to it:
\* three plans, a file that is gone and a file that is not JSON
PlanFiles ==
  {<<"Plans", Slash, "Smoke", ".xctestplan">>,
   <<"Plans", Slash, "Regression", ".xctestplan">>,
   <<"Plans", Slash, "Unit", ".xctestplan">>}
MissingPlanFile == <<"Plans", Slash, "Gone", ".xctestplan">>
BrokenPlanFile == <<"Plans", Slash, "Broken", ".xctestplan">>
\* fs.existsSync(planPath), and JSON.parse of its content does not throw
planFileExists(planPath) ==
  planPath \in {join(WorkspacePath, f) : f \in PlanFiles \cup {BrokenPlanFile}}
planFileParses(planPath) ==
  planPath \in {join(WorkspacePath, f) : f \in PlanFiles}

\* a TestPlanReference element: its reference attribute and whether it has
\* default = "YES"
TestPlanReference(reference, isDefault) ==
  [reference |-> reference, isDefault |-> isDefault]

\* the references a scheme file may hold: to the plans, each as the default
\* one or not, to the two other files, and one that is not container:
References ==
  {TestPlanReference(<<"container:">> \o f, d) : f \in PlanFiles, d \in BOOLEAN}
    \cup {TestPlanReference(<<"container:">> \o MissingPlanFile, FALSE),
          TestPlanReference(<<"container:">> \o BrokenPlanFile, TRUE),
          TestPlanReference(<<"group:">> \o BrokenPlanFile, FALSE)}

\* the sequences of at most n elements of a set
SeqsUpTo(S, n) == UNION {[1..k -> S] : k \in 0..n}

\* what refresh finds: whether a scheme is current, whether its file is
\* found and has content, whether it has a TestPlans section that is not
\* empty, and the references of the section
Schemes ==
  {[selectedScheme |-> FALSE, schemeContent |-> FALSE, testPlansSection |-> FALSE,
    references |-> <<>>],
   [selectedScheme |-> TRUE, schemeContent |-> FALSE, testPlansSection |-> FALSE,
    references |-> <<>>],
   [selectedScheme |-> TRUE, schemeContent |-> TRUE, testPlansSection |-> FALSE,
    references |-> <<>>]}
    \cup {[selectedScheme |-> TRUE, schemeContent |-> TRUE, testPlansSection |-> TRUE,
           references |-> r] : r \in SeqsUpTo(References, MaxReferences)}

\* setSelectedTestPlan: the current plan after the call
setSelectedTestPlan(current, testPlan) ==
  IF current.path = testPlan.path THEN current ELSE testPlan

\* testPlans.find(tp => tp.path === planPath) finds a plan
findByPath(plans, planPath) == \E i \in 1..Len(plans) : plans[i].path = planPath

RECURSIVE loadTestPlans(_, _, _)
\* the loop of refresh over the references: the local testPlans and the
\* current plan after it
loadTestPlans(references, plans, current) ==
  IF references = <<>> THEN [testPlans |-> plans, selectedTestPlan |-> current]
  ELSE LET match == Head(references)
           rest == Tail(references)
           relativePath == Tail(match.reference)
           planPath == join(WorkspacePath, relativePath)
           plan == [path |-> planPath, name |-> basename(planPath, <<".xctestplan">>)]
       IN IF ~startsWith(match.reference, <<"container:">>)
            THEN loadTestPlans(rest, plans, current)
          ELSE IF ~planFileExists(planPath)
            THEN loadTestPlans(rest, plans, current)
          ELSE IF ~planFileParses(planPath)
            THEN loadTestPlans(rest, plans, current)
          ELSE loadTestPlans(rest, Append(plans, plan),
                 IF match.isDefault /\ current = NoPlan
                   THEN setSelectedTestPlan(current, plan)
                   ELSE current)

\* refresh: the plans, the current plan and the path it left on
refresh(plans, current, scheme) ==
  IF ~scheme.selectedScheme
    THEN [testPlans |-> <<>>, selectedTestPlan |-> current, exit |-> "noScheme"]
  ELSE IF ~scheme.schemeContent
    THEN [testPlans |-> <<>>, selectedTestPlan |-> current, exit |-> "noSchemeFile"]
  ELSE IF ~scheme.testPlansSection
    THEN [testPlans |-> <<>>, selectedTestPlan |-> current, exit |-> "noSection"]
  ELSE LET loaded == loadTestPlans(scheme.references, <<>>, current)
       IN [testPlans |-> loaded.testPlans,
           selectedTestPlan |->
             IF loaded.selectedTestPlan # NoPlan
                  /\ ~findByPath(loaded.testPlans, loaded.selectedTestPlan.path)
               THEN setSelectedTestPlan(loaded.selectedTestPlan, NoPlan)
               ELSE loaded.selectedTestPlan,
           exit |-> "parsed"]

\* a TestPlansManager that was just constructed
NoTestPlans ==
  /\ testPlans = <<>>
  /\ selectedTestPlan = NoPlan
  /\ refreshExit = "none"

ToolError == <<"xcodebuild exited with code 65">>

\* the part of the manager's state a handler's synchronous steps change
Manager ==
  [pc |-> pc, index |-> index, kind |-> kind, testRun |-> testRun,
   runContext |-> runContext, invocations |-> invocations,
   currentTestId |-> currentTestId, finished |-> finished]

Becomes(m) ==
  /\ pc' = m.pc
  /\ index' = m.index
  /\ kind' = m.kind
  /\ testRun' = m.testRun
  /\ runContext' = m.runContext
  /\ invocations' = m.invocations
  /\ currentTestId' = m.currentTestId
  /\ finished' = m.finished

\* parts[i] of a destructured array, undefined past its end
at(parts, i) == IF i <= Len(parts) THEN parts[i] ELSE undefined

\* runTask(... terminal.execute({command: "xcodebuild", args})) is entered
invoke(m, path, command, onlyTesting, ctx) ==
  [m EXCEPT !.pc = "streaming",
            !.kind = path,
            !.runContext = ctx,
            !.invocations = Append(@, [command |-> command,
                                       onlyTesting |-> onlyTesting])]

\* runMethodTest up to the call of runTask
runMethodTestBegin(m, methodTest, command) ==
  LET parts == split(methodTest, Colon)
      classAndMethod == at(parts, 3)
      className == at(split(classAndMethod, Dot), 1)
      methodName == at(split(classAndMethod, Dot), 2)
      testTarget == getTestTarget(methodTest)
  IN IF testTarget = undefined
       THEN [m EXCEPT !.testRun = skipped(@, methodTest),
                      !.currentTestId = undefined]
       ELSE invoke([m EXCEPT !.currentTestId = methodTest,
                             !.testRun = started(@, methodTest)],
                   "method", command,
                   <<testTarget \o <<Slash>> \o className \o <<Slash>> \o methodName>>,
                   newRunContext(<<methodTest>>))

\* the end of runMethodTest without the finally block that clears the
\* current test id
runMethodTestEnd_KeepsTestId(m, methodTest, threw) ==
  LET caught == IF threw THEN failed(m.testRun, methodTest, TestMessage(ToolError))
                ELSE m.testRun
      swept == IF ~isMethodTestProcessed(m.runContext, methodTest)
                 THEN skipped(caught, methodTest)
                 ELSE caught
  IN [m EXCEPT !.testRun = swept,
               !.finished = Append(@, [kind |-> "method", tests |-> <<methodTest>>,
                                       runContext |-> m.runContext,
                                       threw |-> threw])]

\* runMethodTest from the return or throw of runTask
runMethodTestEnd(m, methodTest, threw) ==
  LET caught == IF threw THEN failed(m.testRun, methodTest, TestMessage(ToolError))
                ELSE m.testRun
      swept == IF ~isMethodTestProcessed(m.runContext, methodTest)
                 THEN skipped(caught, methodTest)
                 ELSE caught
  IN [m EXCEPT !.testRun = swept,
               !.currentTestId = undefined,
               !.finished = Append(@, [kind |-> "method", tests |-> <<methodTest>>,
                                       runContext |-> m.runContext,
                                       threw |-> threw])]

\* runClassTest up to the call of runTask
runClassTestBegin(m, classTest, command) ==
  LET parts == split(classTest, Colon)
      className == at(parts, 3)
      testTarget == getTestTarget(classTest)
  IN IF testTarget = undefined
       THEN [m EXCEPT !.testRun = skipped(@, classTest),
                      !.currentTestId = undefined]
       ELSE invoke([m EXCEPT !.currentTestId = classTest,
                             !.testRun = started(@, classTest)],
                   "class", command,
                   <<testTarget \o <<Slash>> \o className>>,
                   newRunContext(children(classTest)))

\* runClassTest from the return or throw of runTask
runClassTestEnd(m, classTest, threw) ==
  LET unprocessed == Range(getUnprocessedMethodTests(m.runContext))
      caught ==
        IF threw
          THEN failedAll(
                 failed(m.testRun, classTest,
                        TestMessage(<<"Test class failed due to an error: ">>
                                      \o ToolError)),
                 unprocessed, TestMessage(<<"Test failed due to an error.">>))
          ELSE m.testRun
      swept == skippedAll(caught, unprocessed)
      overallStatus == getOverallStatus(m.runContext)
      rolled ==
        IF overallStatus = "failed"
          THEN failed(swept, classTest, TestMessage(<<"One or more tests failed.">>))
        ELSE IF overallStatus = "passed" THEN passed(swept, classTest)
        ELSE skipped(swept, classTest)
  IN [m EXCEPT !.testRun = rolled,
               !.currentTestId = undefined,
               !.finished = Append(@, [kind |-> "class", tests |-> <<classTest>>,
                                       runContext |-> m.runContext,
                                       threw |-> threw])]


\* the planning loop of the batch path of runTests over validTests;
\* acc = [testRun, testSpecs, allMethodTests]
RECURSIVE batchPlan(_, _, _)
batchPlan(tests, cancelled, acc) ==
  IF tests = <<>> THEN acc
  ELSE
    LET test == Head(tests)
        parts == split(test, Colon)
        testTarget == getTestTarget(test)
        next ==
          IF cancelled THEN [acc EXCEPT !.testRun = skipped(@, test)]
          ELSE IF testTarget = undefined
            THEN [acc EXCEPT !.testRun = skipped(@, test)]
          ELSE IF includes(test, Dot)
            THEN LET classAndMethod == at(parts, 3)
                     className == at(split(classAndMethod, Dot), 1)
                     methodName == at(split(classAndMethod, Dot), 2)
                 IN [testRun |-> started(acc.testRun, test),
                     testSpecs |-> Append(acc.testSpecs,
                                     testTarget \o <<Slash>> \o className
                                       \o <<Slash>> \o methodName),
                     allMethodTests |-> Append(acc.allMethodTests, test)]
          ELSE IF Len(parts) = 2
            THEN LET classes == children(test)
                     methods == [i \in 1..Len(classes) |-> children(classes[i])]
                     all == IF methods = <<>> THEN <<>>
                            ELSE LET cat[i \in 0..Len(methods)] ==
                                       IF i = 0 THEN <<>>
                                       ELSE cat[i - 1] \o methods[i]
                                 IN cat[Len(methods)]
                 IN [testRun |-> startedAll(acc.testRun,
                                   {test} \cup Range(classes) \cup Range(all)),
                     testSpecs |-> Append(acc.testSpecs, testTarget),
                     allMethodTests |-> acc.allMethodTests \o all]
          ELSE LET className == at(parts, 3)
               IN [testRun |-> startedAll(acc.testRun,
                                 {test} \cup Range(children(test))),
                   testSpecs |-> Append(acc.testSpecs,
                                   testTarget \o <<Slash>> \o className),
                   allMethodTests |-> acc.allMethodTests \o children(test)]
    IN batchPlan(Tail(tests), cancelled, next)

\* the batch path of runTests up to the call of runTask
runBatchBegin(m, tests, cancelled, command) ==
  LET plan == batchPlan(tests, cancelled,
                [testRun |-> m.testRun, testSpecs |-> <<>>, allMethodTests |-> <<>>])
  IN invoke([m EXCEPT !.testRun = plan.testRun], "batch", command,
            plan.testSpecs, newRunContext(plan.allMethodTests))

\* the end of the batch path without the sweep of its finally block
runBatchEnd_NoSweep(m, tests, threw) ==
  LET caught ==
        IF threw
          THEN failedAll(m.testRun,
                 {t \in Range(tests) : ~isMethodTestProcessed(m.runContext, t)},
                 TestMessage(<<"Tests failed due to an error: ">> \o ToolError))
          ELSE m.testRun
  IN [m EXCEPT !.testRun = caught,
               !.currentTestId = undefined,
               !.finished = Append(@, [kind |-> "batch", tests |-> tests,
                                       runContext |-> m.runContext,
                                       threw |-> threw])]

\* the batch path of runTests from the return or throw of runTask
runBatchEnd(m, tests, threw) ==
  LET caught ==
        IF threw
          THEN failedAll(m.testRun,
                 {t \in Range(tests) : ~isMethodTestProcessed(m.runContext, t)},
                 TestMessage(<<"Tests failed due to an error: ">> \o ToolError))
          ELSE m.testRun
      swept == skippedAll(caught,
                 {id \in Range(m.runContext.methodTests) :
                    ~isMethodTestProcessed(m.runContext, id)})
  IN [m EXCEPT !.testRun = swept,
               !.currentTestId = undefined,
               !.finished = Append(@, [kind |-> "batch", tests |-> tests,
                                       runContext |-> m.runContext,
                                       threw |-> threw])]

\* runTests from the return of resolveSPMTestingTarget up to the call of
\* runTask, or to its return when no invocation is made
runTestsBegin(m, tests, cancelled, command) ==
  IF Len(tests) = 1
    THEN LET test == tests[1] IN
         IF testItemType(test) = "undefined"
           THEN [m EXCEPT !.testRun = skipped(@, test),
                          !.currentTestId = undefined,
                          !.pc = "done"]
         ELSE LET r == IF testItemType(test) = "method"
                         THEN runMethodTestBegin(m, test, command)
                         ELSE runClassTestBegin(m, test, command)
              IN IF r.pc = "streaming" THEN r
                 ELSE [r EXCEPT !.currentTestId = undefined, !.pc = "done"]
    ELSE runBatchBegin(m, tests, cancelled, command)

\* the loop of buildAndRunTests from item i up to the next call of runTask,
\* or to run.end() when no item is left
RECURSIVE runEach(_, _, _)
runEach(m, tests, i) ==
  IF i > Len(tests) THEN [m EXCEPT !.pc = "done", !.index = i]
  ELSE LET test == tests[i] IN
       IF testItemType(test) = "undefined" THEN runEach(m, tests, i + 1)
       ELSE LET r == IF testItemType(test) = "method"
                       THEN runMethodTestBegin(m, test, <<"test-without-building">>)
                       ELSE runClassTestBegin(m, test, <<"test-without-building">>)
            IN IF r.pc = "streaming" THEN [r EXCEPT !.index = i]
               ELSE runEach(r, tests, i + 1)

(***************************************************************************)
(* Inputs.                                                                 *)
(***************************************************************************)
\* sequences of distinct nodes, no longer than max
Selections(max) ==
  UNION {{sel \in [1..n -> Nodes] : \A i, j \in 1..n : i # j => sel[i] # sel[j]} :
           n \in 0..max}

\* run requests: a selection, or no include list (run everything)
Requests == Selections(MaxSel) \cup {NoInclude}

\* the requests of the planning runs, which stop before any invocation
QueueRequests == Selections(MaxQueueSel) \cup {NoInclude}

\* the requests of the parsing runs: a method, a class, two classes with a
\* method name in common, a test type together with one of its methods
FooClass == classId(DiscoveredClasses[1])
BarClass == classId(DiscoveredClasses[2])
SmokeTestType == testTypeId(DiscoveredTestTypes[1].domain,
                            DiscoveredTestTypes[1].testType)
StreamRequests ==
  { <<children(FooClass)[1]>>,
    <<FooClass>>,
    <<BarClass, FooClass>>,
    <<SmokeTestType, children(FooClass)[2]>> }

\* the lines a run request is fed: the status lines, of either dialect, that
\* end a test, for two of the method names
RunLines ==
  {line \in OutputLines :
     /\ line.ios.matched =>
          /\ line.ios.methodName \in {<<"testA">>, <<"testB">>}
          /\ line.ios.status[1] \in {"passed", "failed"}
     /\ line.macos.matched =>
          /\ line.macos.methodName \in {<<"testA">>, <<"testB">>}
          /\ line.macos.status[1] \in {"passed", "failed"}
     /\ ~line.inline.matched}

\* the workspace of the tree above: an Xcode project, no Package.swift
XcodeProject ==
  [packages |-> {}, dump |-> [threw |-> TRUE, hasTargets |-> FALSE, targets |-> <<>>]]

\* before any resolution: no context has an spmTarget
NotResolved(items) ==
  [pathCache |-> <<>>,
   spmTarget |-> [id \in {n \in items : hasTestItemContext(n)} |-> undefined],
   result |-> undefined, returned |-> FALSE, searched |-> <<>>]

\* a package-style workspace: test files under UITests/Tests/<target>/
MyAppTests == <<"MyApp", "Tests">>
OtherTests == <<"Other", "Tests">>
PackageClasses ==
  << [domain |-> <<"Tests">>, testType |-> MyAppTests, className |-> <<"Foo">>,
      methods |-> << <<"testA">> >>],
     [domain |-> <<"Tests">>, testType |-> OtherTests, className |-> <<"Baz">>,
      methods |-> <<>>] >>

\* the items of that workspace a queue may hold: the classes, the methods
\* and one test type
PackageItems ==
  {classId(c) : c \in Range(PackageClasses)}
    \cup UNION {{methodId(c, c.methods[j]) : j \in 1..Len(c.methods)} :
                  c \in Range(PackageClasses)}
    \cup {testTypeId(<<"Tests">>, MyAppTests)}

\* the queues of the resolution runs: distinct items, no longer than max
ResolveQueues(max) ==
  UNION {{q \in [1..n -> PackageItems] : \A i, j \in 1..n : i # j => q[i] # q[j]} :
           n \in 0..max}

\* the directories that may hold a Package.swift
PackageDirs ==
  {WorkspacePath,
   join(WorkspacePath, <<"UITests">>),
   join(join(WorkspacePath, <<"UITests">>), <<"Tests">>)}

testTarget(name) == [name |-> name, type |-> "test", path |-> undefined]

\* what dump-package may do: fail, print JSON without targets, or print
\* the targets of a package: none, one, two, two of which one name begins
\* the other, one with a path of its own, one that is not a test target
Dumps ==
  {[threw |-> TRUE, hasTargets |-> FALSE, targets |-> <<>>],
   [threw |-> FALSE, hasTargets |-> FALSE, targets |-> <<>>]}
    \cup {[threw |-> FALSE, hasTargets |-> TRUE, targets |-> t] :
            t \in { <<>>,
                    <<testTarget(MyAppTests)>>,
                    <<testTarget(MyAppTests), testTarget(OtherTests)>>,
                    <<testTarget(<<"MyApp">>), testTarget(MyAppTests)>>,
                    <<[name |-> <<"AllTests">>, type |-> "test",
                       path |-> <<"Tests">>]>>,
                    <<[name |-> MyAppTests, type |-> "regular",
                       path |-> undefined]>> }}

FileSystems ==
  {XcodeProject}
    \cup {[packages |-> dirs, dump |-> d] :
            dirs \in SUBSET PackageDirs \ {{}}, d \in Dumps}

\* the files the events of a discovery run touch, and what they may hold:
\* no test class, the class Foo with one method or with another, the class
\* Bar with a method name of Foo
FileA == FileOrder[4]
FileB == FileOrder[5]
FileC == FileOrder[6]
SharedFile == FileOrder[7]
ColonFile == FileOrder[10]
\* the documents updateTestItems is called on, and those among them that the
\* events of a discovery run touch
Documents == {FileA, FileB, FileC}
WatchedFiles == {FileA, FileC}

Absent == [exists |-> FALSE, classes |-> <<>>]
NoTests ==
  [exists |-> TRUE,
   classes |-> <<[className |-> <<"Helper">>, bases |-> << <<"NSObject">> >>,
                  hasBody |-> TRUE, methods |-> << <<"testA">> >>]>>]
FooWithA == [exists |-> TRUE, classes |-> <<testClass(<<"Foo">>, << <<"testA">> >>)>>]
FooWithB ==
  [exists |-> TRUE,
   classes |-> <<testClass(<<"Foo">>, << <<"testB">>, <<"testB">> >>)>>]
BarWithA == [exists |-> TRUE, classes |-> <<testClass(<<"Bar">>, << <<"testA">> >>)>>]
\* what an event may leave in a file
FileContents(filePath) ==
  IF filePath = FileA THEN {NoTests, FooWithA}
  ELSE IF filePath = FileB THEN {FooWithB, BarWithA}
  ELSE {NoTests, BarWithA}

\* a disk: the three files and a file one directory too high
diskWith(a, b, c) ==
  [filePath \in Documents \cup {SharedFile} |->
     IF filePath = FileA THEN a
     ELSE IF filePath = FileB THEN b
     ELSE IF filePath = FileC THEN c
     ELSE BarWithA]

\* a disk with one more file, in a directory whose name holds a ':'
withColonDirectory(files) ==
  [filePath \in DOMAIN files \cup {ColonFile} |->
     IF filePath = ColonFile THEN NoTests ELSE files[filePath]]

\* the disks a discovery run starts on: one test file; the same class in two
\* files of a directory and a class in another domain; one test file and a
\* domain directory named as the id of its test type
InitialDisks ==
  {diskWith(FooWithA, Absent, Absent),
   diskWith(FooWithA, FooWithB, BarWithA),
   withColonDirectory(diskWith(FooWithA, Absent, Absent))}

\* discovery has ended on a disk and nothing has changed since
Settled(files) ==
  /\ disk = files
  /\ controllerItems = discoverAll(files)
  /\ documentChangeDebounceTimer = FALSE
  /\ scans = <<>>
  /\ scanLog = <<>>
  /\ fsEvents = 0

(***************************************************************************)
(* Actions.                                                                *)
(***************************************************************************)
Init ==
  /\ pc = "idle"
  /\ profile = "none"
  /\ request = NoInclude
  /\ token = FALSE
  /\ queue = <<>>
  /\ validTests = <<>>
  /\ index = 0
  /\ kind = "none"
  /\ testRun = newTestRun
  /\ runContext = newRunContext(<<>>)
  /\ invocations = <<>>
  /\ lines = 0
  /\ currentTestId = undefined
  /\ finished = <<>>
  /\ fileSystem = XcodeProject
  /\ NoTestPlans
  /\ resolution = NotResolved(Nodes)
  /\ Settled(diskOf(DiscoveredClasses, DiscoveredTestTypes))

\* the "Run (without building)" profile is invoked: runTestsWithoutBuilding up
\* to the wait for askTestingConfigurations
runTestsWithoutBuilding(req) ==
  /\ pc = "idle"
  /\ profile' = "nobuild"
  /\ request' = req
  /\ queue' = prepareQueueForRun(req)
  /\ validTests' = SelectSeq(queue', isValidTestItem)
  /\ IF Len(validTests') = 0
       THEN pc' = "done" /\ currentTestId' = currentTestId
       ELSE pc' = "asking" /\ currentTestId' = validTests'[1]
  /\ UNCHANGED <<fileSystem, resolution, discoveryVars, planVars>>
  /\ UNCHANGED <<token, index, kind, testRun, runContext, invocations, lines,
                 finished>>

\* the "Run" profile is invoked: buildAndRunTests up to the wait for
\* askTestingConfigurations
buildAndRunTests(req) ==
  /\ pc = "idle"
  /\ profile' = "build"
  /\ request' = req
  /\ queue' = prepareQueueForRun(req)
  /\ validTests' = SelectSeq(queue', isValidTestItem)
  /\ pc' = IF Len(validTests') = 0 THEN "done" ELSE "asking"
  /\ UNCHANGED <<fileSystem, resolution, discoveryVars, planVars>>
  /\ UNCHANGED <<token, index, kind, testRun, runContext, invocations, lines,
                 currentTestId, finished>>

\* askTestingConfigurations returns.  nobuild: runTests starts and waits for
\* resolveSPMTestingTarget.  build: buildForTesting is awaited.
Configured ==
  /\ pc = "asking"
  /\ IF profile = "nobuild"
       THEN /\ queue' = prepareQueueForRun(request)
            /\ validTests' = SelectSeq(queue', isValidTestItem)
            /\ IF Len(validTests') = 0
                 THEN pc' = "done" /\ currentTestId' = undefined
                 ELSE /\ pc' = "resolving"
                      /\ currentTestId' = IF Len(validTests') > 1
                                            THEN validTests'[1]
                                            ELSE currentTestId
       ELSE /\ pc' = "building"
            /\ UNCHANGED <<queue, validTests, currentTestId>>
  /\ UNCHANGED <<fileSystem, resolution, discoveryVars, planVars>>
  /\ UNCHANGED <<profile, request, token, index, kind, testRun, runContext,
                 invocations, lines, finished>>

\* askTestingConfigurations throws, a prompt having been dismissed.  nobuild:
\* the finally block of runTestsWithoutBuilding clears the current test id
\* and the handler throws; build: buildAndRunTests throws
ConfigurationFailed ==
  /\ pc = "asking"
  /\ pc' = "thrown"
  /\ currentTestId' = IF profile = "nobuild" THEN undefined ELSE currentTestId
  /\ UNCHANGED <<fileSystem, resolution, discoveryVars, planVars>>
  /\ UNCHANGED <<profile, request, token, queue, validTests, index, kind,
                 testRun, runContext, invocations, lines, finished>>

\* resolveSPMTestingTarget returns: runTests goes on to its first runTask
Resolved ==
  /\ pc = "resolving"
  /\ resolution' = resolveSPMTestingTarget(fileSystem, queue, resolution.spmTarget)
  /\ UNCHANGED <<fileSystem, discoveryVars, planVars>>
  /\ Becomes(runTestsBegin(Manager, validTests, token, <<"test-without-building">>))
  /\ UNCHANGED <<profile, request, token, queue, validTests, lines>>

\* buildForTesting returns: the test run is created and the items are run
Built ==
  /\ pc = "building"
  /\ Becomes(runEach(Manager, validTests, 1))
  /\ UNCHANGED <<fileSystem, resolution, discoveryVars, planVars>>
  /\ UNCHANGED <<profile, request, token, queue, validTests, lines>>

\* the external tool writes one line: onOutputLine
OutputLine(line, max) ==
  /\ pc = "streaming"
  /\ lines < max
  /\ lines' = lines + 1
  /\ LET st == parseOutputLine(line, [testRun |-> testRun, runContext |-> runContext])
     IN testRun' = st.testRun /\ runContext' = st.runContext
  /\ UNCHANGED <<fileSystem, resolution, discoveryVars, planVars>>
  /\ UNCHANGED <<pc, profile, request, token, queue, validTests, index, kind,
                 invocations, currentTestId, finished>>

\* runTask returns (threw = FALSE) or throws: the handler runs to its next
\* runTask or to its end
ToolExit(threw) ==
  /\ pc = "streaming"
  /\ LET test == IF profile = "build" THEN validTests[index] ELSE validTests[1]
         ended == IF kind = "method" THEN runMethodTestEnd(Manager, test, threw)
                  ELSE IF kind = "class" THEN runClassTestEnd(Manager, test, threw)
                  ELSE runBatchEnd(Manager, validTests, threw)
     IN IF profile = "build"
          THEN Becomes(runEach(ended, validTests, index + 1))
          ELSE Becomes([ended EXCEPT !.pc = "done", !.currentTestId = undefined])
  /\ UNCHANGED <<fileSystem, resolution, discoveryVars, planVars>>
  /\ UNCHANGED <<profile, request, token, queue, validTests, lines>>

\* the user cancels the run while the handler is suspended in planning
Cancel ==
  /\ pc \in {"asking", "resolving", "building"}
  /\ ~token
  /\ token' = TRUE
  /\ UNCHANGED <<fileSystem, resolution, discoveryVars, planVars>>
  /\ UNCHANGED <<pc, profile, request, queue, validTests, index, kind, testRun,
                 runContext, invocations, lines, currentTestId, finished>>

Next ==
  \/ \E req \in Requests : runTestsWithoutBuilding(req)
  \/ \E req \in Requests : buildAndRunTests(req)
  \/ Configured
  \/ ConfigurationFailed
  \/ Resolved
  \/ Built
  \/ \E line \in RunLines : OutputLine(line, MaxLines)
  \/ \E threw \in BOOLEAN : ToolExit(threw)
  \/ Cancel

Spec == Init /\ [][Next]_vars

(***************************************************************************)
(* Planning runs: the run profiles are invoked on longer selections and    *)
(* followed up to their first wait.                                        *)
(***************************************************************************)
NextQueue ==
  \/ \E req \in QueueRequests : runTestsWithoutBuilding(req)
  \/ \E req \in QueueRequests : buildAndRunTests(req)

SpecQueue == Init /\ [][NextQueue]_vars

(***************************************************************************)
(* Parsing runs: runTests has reached its runTask for one of               *)
(* StreamRequests; the external tool then writes any of OutputLines.       *)
(***************************************************************************)
StreamStart(req) ==
  LET q == prepareQueueForRun(req)
      v == SelectSeq(q, isValidTestItem)
  IN runTestsBegin([pc |-> "resolving", index |-> 0, kind |-> "none",
                    testRun |-> newTestRun, runContext |-> newRunContext(<<>>),
                    invocations |-> <<>>, currentTestId |-> v[1],
                    finished |-> <<>>],
                   v, FALSE, <<"test-without-building">>)

InitStream ==
  \E req \in StreamRequests :
    /\ profile = "nobuild"
    /\ request = req
    /\ token = FALSE
    /\ queue = prepareQueueForRun(req)
    /\ validTests = SelectSeq(queue, isValidTestItem)
    /\ lines = 0
    /\ pc = StreamStart(req).pc
    /\ index = StreamStart(req).index
    /\ kind = StreamStart(req).kind
    /\ testRun = StreamStart(req).testRun
    /\ runContext = StreamStart(req).runContext
    /\ invocations = StreamStart(req).invocations
    /\ currentTestId = StreamStart(req).currentTestId
    /\ finished = StreamStart(req).finished
    /\ fileSystem = XcodeProject
    /\ NoTestPlans
    /\ resolution = NotResolved(Nodes)
    /\ Settled(diskOf(DiscoveredClasses, DiscoveredTestTypes))

NextStream ==
  \/ \E line \in OutputLines : OutputLine(line, MaxStreamLines)
  \/ \E threw \in BOOLEAN : ToolExit(threw)

SpecStream == InitStream /\ [][NextStream]_vars


(***************************************************************************)
(* Resolution runs: runTests waits for resolveSPMTestingTarget on a queue  *)
(* of items of a package-style workspace, and is followed up to its        *)
(* return.                                                                 *)
(***************************************************************************)
InitResolve ==
  \E q \in ResolveQueues(MaxResolveQueue), fs \in FileSystems :
    /\ pc = "resolving"
    /\ profile = "nobuild"
    /\ request = q
    /\ token = FALSE
    /\ queue = q
    /\ validTests = SelectSeq(q, isValidTestItem)
    /\ index = 0
    /\ kind = "none"
    /\ testRun = newTestRun
    /\ runContext = newRunContext(<<>>)
    /\ invocations = <<>>
    /\ lines = 0
    /\ currentTestId = undefined
    /\ finished = <<>>
    /\ fileSystem = fs
    /\ NoTestPlans
    /\ resolution = NotResolved(PackageItems)
    /\ Settled(diskOf(PackageClasses, <<>>))

\* resolveSPMTestingTarget returns
TargetsResolved ==
  /\ pc = "resolving"
  /\ pc' = "resolved"
  /\ resolution' = resolveSPMTestingTarget(fileSystem, queue, resolution.spmTarget)
  /\ UNCHANGED <<profile, request, token, queue, validTests, index, kind,
                 testRun, runContext, invocations, lines, currentTestId,
                 finished, fileSystem, discoveryVars, planVars>>

NextResolve == TargetsResolved

SpecResolve == InitResolve /\ [][NextResolve]_vars


(***************************************************************************)
(* Discovery runs: the manager has just been constructed, its first scan   *)
(* is queued; files are then saved, created and deleted.                   *)
(***************************************************************************)
\* a call of discoverUITests that waits for findFiles; trigger is the caller:
\* "constructor", "timer" (the debounce callback), "create" or "delete";
\* seq tells the calls apart: the first call made has 1, the next one 2
newScan(overlapped, trigger, seq) ==
  [phase |-> "finding", testFiles |-> <<>>, next |-> 0, domainGroups |-> <<>>,
   read |-> <<>>, overlapped |-> overlapped, trigger |-> trigger, seq |-> seq]

\* this.discoverUITests() is called: the calls under way now overlap
discoverUITests(running, trigger) ==
  Append([i \in 1..Len(running) |-> [running[i] EXCEPT !.overlapped = TRUE]],
         newScan(running # <<>>, trigger, Len(scanLog) + Len(running) + 1))

\* the calls under way without the i-th
without(running, i) ==
  SubSeq(running, 1, i - 1) \o SubSeq(running, i + 1, Len(running))

RECURSIVE nextToOpen(_, _)
\* the next file of the expected structure from a position on, 0 when none
nextToOpen(testFiles, from) ==
  IF from > Len(testFiles) THEN 0
  ELSE IF inStructure(testFiles[from]) THEN from
  ELSE nextToOpen(testFiles, from + 1)

\* the entry of the log for a call that ended; shown is the tree it left
ended(scan, shown, completed) ==
  [input |-> scan.read, result |-> scan.domainGroups, shown |-> shown,
   overlapped |-> scan.overlapped, completed |-> completed, seq |-> scan.seq]

InitDiscover ==
  \E files \in InitialDisks :
    /\ pc = "idle"
    /\ profile = "none"
    /\ request = NoInclude
    /\ token = FALSE
    /\ queue = <<>>
    /\ validTests = <<>>
    /\ index = 0
    /\ kind = "none"
    /\ testRun = newTestRun
    /\ runContext = newRunContext(<<>>)
    /\ invocations = <<>>
    /\ lines = 0
    /\ currentTestId = undefined
    /\ finished = <<>>
    /\ fileSystem = XcodeProject
    /\ NoTestPlans
    /\ resolution = NotResolved(Nodes)
    /\ disk = files
    /\ controllerItems = <<>>
    /\ documentChangeDebounceTimer = FALSE
    /\ scans = <<newScan(FALSE, "constructor", 1)>>
    /\ scanLog = <<>>
    /\ fsEvents = 0

\* findFiles returns to the i-th call: the tree is cleared and the files
\* are gone through up to the first document to open, or to the end
FilesFound(i) ==
  /\ i \in 1..Len(scans)
  /\ scans[i].phase = "finding"
  /\ LET testFiles == findFiles(disk)
         n == nextToOpen(testFiles, 1)
         cleared == replaceItems(controllerItems, <<>>)
     IN IF n = 0
          THEN /\ controllerItems' = replaceItems(cleared, <<>>)
               /\ scans' = without(scans, i)
               /\ scanLog' = Append(scanLog, ended(scans[i], controllerItems', TRUE))
          ELSE /\ controllerItems' = cleared
               /\ scans' = [scans EXCEPT ![i].phase = "opening",
                                         ![i].testFiles = testFiles,
                                         ![i].next = n]
               /\ scanLog' = scanLog
  /\ UNCHANGED <<disk, documentChangeDebounceTimer, fsEvents, runVars, planVars>>

\* openTextDocument returns to the i-th call, or throws for a file that is
\* gone: the document is scanned and the files are gone through up to the
\* next document to open, or to the end, where the roots are replaced
DocumentOpened(i) ==
  /\ i \in 1..Len(scans)
  /\ scans[i].phase = "opening"
  /\ LET scan == scans[i]
         filePath == scan.testFiles[scan.next]
         n == nextToOpen(scan.testFiles, scan.next + 1)
         scanned == [scan EXCEPT
                       !.domainGroups = scanFile(@, filePath, disk[filePath]),
                       !.read = Append(@, <<filePath, disk[filePath]>>),
                       !.next = n]
     IN IF ~disk[filePath].exists
          THEN /\ controllerItems' = controllerItems
               /\ scans' = without(scans, i)
               /\ scanLog' = Append(scanLog, ended(scan, controllerItems, FALSE))
        ELSE IF n = 0
          THEN /\ controllerItems' = replaceItems(controllerItems, scanned.domainGroups)
               /\ scans' = without(scans, i)
               /\ scanLog' = Append(scanLog, ended(scanned, controllerItems', TRUE))
          ELSE /\ controllerItems' = controllerItems
               /\ scans' = [scans EXCEPT ![i] = scanned]
               /\ scanLog' = scanLog
  /\ UNCHANGED <<disk, documentChangeDebounceTimer, fsEvents, runVars, planVars>>

\* onDidSaveTextDocument: a document is saved with some content
SaveEvent(filePath, file) ==
  /\ fsEvents < MaxEvents
  /\ disk[filePath].exists
  /\ fsEvents' = fsEvents + 1
  /\ disk' = [disk EXCEPT ![filePath] = file]
  /\ documentChangeDebounceTimer' =
       IF endsWith(filePath, <<".swift">>) /\ hasBaseTestClass(file)
         THEN TRUE
         ELSE documentChangeDebounceTimer
  /\ UNCHANGED <<controllerItems, scans, scanLog, runVars, planVars>>

\* the debounce timer expires
TimerExpired ==
  /\ documentChangeDebounceTimer
  /\ Len(scans) < MaxScans
  /\ documentChangeDebounceTimer' = FALSE
  /\ scans' = discoverUITests(scans, "timer")
  /\ UNCHANGED <<disk, controllerItems, scanLog, fsEvents, runVars, planVars>>

\* fileWatcher.onDidCreate: a Swift file is created with some content
CreateEvent(filePath, file) ==
  /\ fsEvents < MaxEvents
  /\ ~disk[filePath].exists
  /\ hasBaseTestClass(file) => Len(scans) < MaxScans
  /\ fsEvents' = fsEvents + 1
  /\ disk' = [disk EXCEPT ![filePath] = file]
  /\ scans' = IF hasBaseTestClass(file) THEN discoverUITests(scans, "create") ELSE scans
  /\ UNCHANGED <<controllerItems, documentChangeDebounceTimer, scanLog, runVars, planVars>>

\* fileWatcher.onDidDelete: a Swift file is deleted
DeleteEvent(filePath) ==
  /\ fsEvents < MaxEvents
  /\ Len(scans) < MaxScans
  /\ disk[filePath].exists
  /\ fsEvents' = fsEvents + 1
  /\ disk' = [disk EXCEPT ![filePath] = Absent]
  /\ scans' = discoverUITests(scans, "delete")
  /\ UNCHANGED <<controllerItems, documentChangeDebounceTimer, scanLog, runVars, planVars>>

NextDiscover ==
  \/ \E i \in 1..MaxScans : FilesFound(i)
  \/ \E i \in 1..MaxScans : DocumentOpened(i)
  \/ \E filePath \in WatchedFiles : \E file \in FileContents(filePath) : SaveEvent(filePath, file)
  \/ TimerExpired
  \/ \E filePath \in WatchedFiles : \E file \in FileContents(filePath) : CreateEvent(filePath, file)
  \/ \E filePath \in WatchedFiles : DeleteEvent(filePath)

SpecDiscover == InitDiscover /\ [][NextDiscover]_vars

(***************************************************************************)
(* Update runs: discovery has ended; documents are saved and               *)
(* updateTestItems is called on them.  Rescans are not followed.           *)
(***************************************************************************)
InitUpdate ==
  \E files \in InitialDisks :
    /\ pc = "idle"
    /\ profile = "none"
    /\ request = NoInclude
    /\ token = FALSE
    /\ queue = <<>>
    /\ validTests = <<>>
    /\ index = 0
    /\ kind = "none"
    /\ testRun = newTestRun
    /\ runContext = newRunContext(<<>>)
    /\ invocations = <<>>
    /\ lines = 0
    /\ currentTestId = undefined
    /\ finished = <<>>
    /\ fileSystem = XcodeProject
    /\ NoTestPlans
    /\ resolution = NotResolved(Nodes)
    /\ Settled(files)

\* updateTestItems(document) is called on a file of the disk
DocumentUpdated(filePath) ==
  /\ disk[filePath].exists
  /\ controllerItems' = updateTestItems(controllerItems, filePath, disk[filePath])
  /\ UNCHANGED <<disk, documentChangeDebounceTimer, scans, scanLog, fsEvents,
                 runVars, planVars>>

NextUpdate ==
  \/ \E filePath \in Documents : \E file \in FileContents(filePath) : SaveEvent(filePath, file)
  \/ \E filePath \in Documents : DocumentUpdated(filePath)

SpecUpdate == InitUpdate /\ [][NextUpdate]_vars


(***************************************************************************)
(* Properties.                                                             *)
(***************************************************************************)
\* the keys of a run context's methodTests
keys(ctx) == Range(ctx.methodTests)

\* the method nodes below a node
methodsBelow(id) == descendants(id) \cap MethodIds

\* the nodes a request selects
selected == IF request = NoInclude THEN Range(RootItems) ELSE Range(request)

\* the overall status rule, on the sets
overallRule(ctx) ==
  IF ctx.failedMethodTests # {} THEN "failed"
  ELSE IF ctx.processedMethodTests = keys(ctx) THEN "passed"
  ELSE "skipped"

\* C1: in every state of a parsing run, whatever lines were consumed, the
\* failed method ids are among the processed ones, the processed ones are
\* among the keys of methodTests, and the keys are those the context was
\* created with.
C1_FailedProcessedKeys ==
  /\ runContext.failedMethodTests \subseteq runContext.processedMethodTests
  /\ runContext.processedMethodTests \subseteq keys(runContext)
  /\ keys(runContext) = keys(StreamStart(request).runContext)
  /\ \A i \in 1..Len(finished) :
       /\ finished[i].runContext.failedMethodTests
            \subseteq finished[i].runContext.processedMethodTests
       /\ finished[i].runContext.processedMethodTests
            \subseteq keys(finished[i].runContext)

\* C1 witness: after the last line some method has failed, another has
\* passed and a third is unprocessed
C1_Witness ==
  /\ lines = MaxStreamLines
  /\ runContext.failedMethodTests # {}
  /\ runContext.failedMethodTests # runContext.processedMethodTests
  /\ runContext.processedMethodTests # keys(runContext)

\* the method name the first matching pattern of a line captured
lineMethodName(line) ==
  IF line.ios.matched THEN line.ios.methodName
  ELSE IF line.macos.matched THEN line.macos.methodName
  ELSE IF line.inline.matched THEN line.inline.methodName
  ELSE undefined

\* more than one key of the context ends in .methodName
ambiguous(ctx, methodName) ==
  Cardinality({id \in keys(ctx) : endsWith(id, <<Dot>> \o methodName)}) > 1

\* C2: a status or inline-error line naming a method that more than one leaf
\* id of the run context ends in is ignored: consuming it changes neither the
\* run context nor any reported status.
C2_AmbiguousLineIgnored ==
  pc = "streaming" =>
    \A line \in OutputLines :
      ambiguous(runContext, lineMethodName(line)) =>
        parseOutputLine(line, [testRun |-> testRun, runContext |-> runContext])
          = [testRun |-> testRun, runContext |-> runContext]

\* C3: when the external invocation threw, every method node of its run
\* context that was unprocessed then has the final status failed.
C3_ToolFailureMarksFailed ==
  pc = "done" =>
    \A i \in 1..Len(finished) :
      finished[i].threw =>
        \A id \in keys(finished[i].runContext)
                    \ finished[i].runContext.processedMethodTests :
          testRun[id].state = "failed"

\* C4: when the external invocation returned without throwing, every method
\* node of its run context that is not processed is reported skipped and none
\* that is processed is; a class run of three methods of which only the
\* first passed ends with that one passed, the other two skipped and the
\* class skipped.
C4_UnprocessedSkipped ==
  \A i \in 1..Len(finished) :
    LET r == finished[i] IN
    ~r.threw =>
      /\ \A id \in keys(r.runContext) :
           (testRun[id].state = "skipped")
             <=> (id \notin r.runContext.processedMethodTests)
      /\ (/\ r.kind = "class"
          /\ Len(r.runContext.methodTests) = 3
          /\ r.runContext.processedMethodTests = {r.runContext.methodTests[1]}
          /\ r.runContext.failedMethodTests = {})
           => /\ testRun[r.runContext.methodTests[1]].state = "passed"
              /\ testRun[r.runContext.methodTests[2]].state = "skipped"
              /\ testRun[r.runContext.methodTests[3]].state = "skipped"
              /\ testRun[r.tests[1]].state = "skipped"

\* C4 witness: a class run of three methods returned without throwing after
\* only its first method passed
C4_Witness ==
  \E i \in 1..Len(finished) :
    /\ ~finished[i].threw
    /\ finished[i].kind = "class"
    /\ Len(finished[i].runContext.methodTests) = 3
    /\ finished[i].runContext.processedMethodTests
         = {finished[i].runContext.methodTests[1]}
    /\ testRun[finished[i].runContext.methodTests[1]].state = "passed"

\* C5: getOverallStatus is failed iff the failed set is non-empty, else
\* passed iff the processed set is the whole key set, else skipped, and a
\* class run reports that status for its class; when the second of three
\* methods fails and the other two pass the status is failed.
C5_OverallStatusRule ==
  /\ getOverallStatus(runContext) = overallRule(runContext)
  /\ \A i \in 1..Len(finished) :
       finished[i].kind = "class" =>
         testRun[finished[i].tests[1]].state = overallRule(finished[i].runContext)
  /\ (/\ Len(runContext.methodTests) = 3
      /\ runContext.failedMethodTests = {runContext.methodTests[2]}
      /\ runContext.processedMethodTests = keys(runContext))
       => getOverallStatus(runContext) = "failed"

\* C5 witness: a class run has ended in which the second of three methods
\* failed and the other two passed
C5_Witness ==
  \E i \in 1..Len(finished) :
    /\ finished[i].kind = "class"
    /\ Len(finished[i].runContext.methodTests) = 3
    /\ finished[i].runContext.failedMethodTests
         = {finished[i].runContext.methodTests[2]}
    /\ finished[i].runContext.processedMethodTests = keys(finished[i].runContext)
    /\ testRun[finished[i].tests[1]].state = "failed"

\* the roll-up of a parent node over the run context of its invocation
rollUp(id, ctx) ==
  IF methodsBelow(id) \cap ctx.failedMethodTests # {} THEN "failed"
  ELSE IF methodsBelow(id) \subseteq ctx.processedMethodTests THEN "passed"
  ELSE "skipped"

\* C6: at the end of a run, the class of a single-item class run and every
\* class or test-type node selected in a batch run has the final status
\* failed if a method below it failed, else passed if all methods below it
\* were processed, else skipped.
C6_RollUp ==
  pc = "done" =>
    \A i \in 1..Len(finished) :
      LET r == finished[i]
          parents == IF r.kind = "method" THEN {}
                     ELSE Range(r.tests) \cap (ClassIds \cup TestTypeIds)
      IN \A id \in parents : testRun[id].state = rollUp(id, r.runContext)

\* C7: when cancellation was requested during planning, the external tool is
\* not invoked and every candidate node ends skipped.
C7_CancelledNotInvoked ==
  token =>
    /\ invocations = <<>>
    /\ pc = "done" => \A id \in Range(validTests) : testRun[id].state = "skipped"

\* the class node a method node is a child of
classOfMethod(id) == CHOOSE c \in ClassIds : id \in Range(children(c))

C9_NonOverlapping ==
  pc # "idle" =>
    \A i, j \in 1..Len(queue) : queue[i] \notin descendants(queue[j])

\* a node that breaks the minimum-segment convention: a domain root, or a
\* node at or below a directory whose name does not end in Tests
nonConforming(id) ==
  \/ id \in DomainIds
  \/ \E k \in 1..Len(DiscoveredTestTypes) :
       LET t == DiscoveredTestTypes[k] IN
       /\ ~endsWith(t.testType, <<"Tests">>)
       /\ id \in {testTypeId(t.domain, t.testType)}
                   \cup descendants(testTypeId(t.domain, t.testType))

\* C10 as stated: at the end of the run every selected node that breaks the
\* convention has been reported skipped.
C10_InvalidReportedSkipped ==
  pc = "done" =>
    \A id \in selected : nonConforming(id) => testRun[id].state = "skipped"

\* C10 as amended: every selected node that breaks the convention is dropped
\* from the run and is given no status at all: it is never among the valid
\* tests or the keys of a run context, and it is reported neither skipped nor
\* failed.
C10_InvalidDroppedUnreported ==
  \A id \in selected :
    nonConforming(id) =>
      /\ id \notin Range(validTests)
      /\ id \notin keys(runContext)
      /\ testRun[id].state = "none"

\* C10 witness: a run has ended in which one selected node broke the
\* convention and another was run
C10_Witness ==
  /\ pc = "done"
  /\ invocations # <<>>
  /\ \E id \in selected : nonConforming(id)

\* the leaf (method) descendants of a node: a method is its own leaf
leaves(id) == IF id \in MethodIds THEN {id} ELSE methodsBelow(id)

\* C11: when a run whose valid tests are exactly one node has ended, whatever
\* the node's kind, exactly one invocation was made, with exactly one
\* selector, and the run context of that invocation had the node's method
\* descendants as its keys.
C11_SingleNodeOneInvocation ==
  (pc = "done" /\ Len(validTests) = 1) =>
    /\ Len(invocations) = 1
    /\ Len(invocations[1].onlyTesting) = 1
    /\ Len(finished) = 1
    /\ keys(finished[1].runContext) = leaves(validTests[1])

\* C12: when a run with more than one valid test has ended, in either
\* profile, exactly one invocation was made, it carried one selector per
\* valid test, and one run context served all of them.
C12_BatchOneInvocation ==
  (pc = "done" /\ Len(validTests) > 1) =>
    /\ Len(invocations) = 1
    /\ Len(invocations[1].onlyTesting) = Len(validTests)
    /\ Len(finished) = 1

\* C13: while a batch invocation is under way, the keys of its run context
\* are exactly the method descendants of the valid tests: a method itself,
\* the methods of a class, the methods of the classes of a test type.
C13_BatchContextKeys ==
  (pc = "streaming" /\ kind = "batch") =>
    keys(runContext) = UNION {leaves(validTests[i]) : i \in 1..Len(validTests)}

\* C14: once a run profile has been invoked on a selection of which no node
\* of the queue conforms, the request has ended as a no-op in either
\* profile: no invocation, no run context, no status for any node.
C14_EmptySelectionNoOp ==
  (pc # "idle" /\ \A i \in 1..Len(queue) : nonConforming(queue[i])) =>
    /\ pc = "done"
    /\ invocations = <<>>
    /\ finished = <<>>
    /\ runContext = newRunContext(<<>>)
    /\ \A id \in Nodes : testRun[id].state = "none"

\* C14 witness: the build profile was invoked on a selection that is not
\* empty and of which nothing is left after validation
C14_Witness ==
  /\ pc = "done"
  /\ profile = "build"
  /\ request # NoInclude
  /\ queue # <<>>
  /\ validTests = <<>>

\* C15: whenever a line makes a method node failed or changes its failure,
\* the reported message is that of the inline error stored for the method
\* before the line, with its file and its line number less one, or it is
\* the generic message when no error was stored; it always has a text.
C15_FailureCarriesStoredError ==
  [][(pc = "streaming" /\ pc' = "streaming") =>
       \A id \in keys(runContext) :
         (testRun'[id] # testRun[id] /\ testRun'[id].state = "failed") =>
           LET error == runContext.inlineErrorMap[id]
               message == testRun'[id].message
           IN /\ message.text # undefined
              /\ IF error.message = undefined
                   THEN /\ message.text = GenericFailure
                        /\ message.fileName = undefined
                   ELSE /\ message.text = error.message
                        /\ message.fileName = error.fileName
                        /\ message.line + 1 = error.lineNumber]_vars

\* C15 witness: a method has failed with the error stored for it at line 10
\* of /path/File.swift, reported at line 9
C15_Witness ==
  /\ pc = "streaming"
  /\ \E id \in keys(runContext) :
       /\ testRun[id].state = "failed"
       /\ testRun[id].message = [text |-> <<"XCTAssertEqual failed">>,
                                 fileName |-> <<"/path/File.swift">>,
                                 line |-> 9]

\* a status line of either dialect with the status passed
passedLine(line) ==
  \/ line.ios.matched /\ line.ios.status[1] = "passed"
  \/ ~line.ios.matched /\ line.macos.matched /\ line.macos.status[1] = "passed"

\* the keys of a context that end in .methodName
candidates(ctx, methodName) ==
  {id \in keys(ctx) : endsWith(id, <<Dot>> \o methodName)}

\* C16: in every state of a parsing run, consuming a passed status line of
\* either dialect whose method name is that of a key of the run context
\* reports a key of that name passed, adds it to processed and leaves the
\* failed set as it was.
C16_PassedLineMarksPassed ==
  pc = "streaming" =>
    \A line \in OutputLines :
      (passedLine(line) /\ candidates(runContext, lineMethodName(line)) # {}) =>
        LET st == parseOutputLine(line, [testRun |-> testRun,
                                         runContext |-> runContext])
        IN /\ st.runContext.failedMethodTests = runContext.failedMethodTests
           /\ \E id \in candidates(runContext, lineMethodName(line)) :
                /\ st.testRun[id].state = "passed"
                /\ id \in st.runContext.processedMethodTests

\* C16 witness: the one line consumed was a passed line and its method is
\* passed, processed and not failed
C16_Witness ==
  /\ pc = "streaming"
  /\ lines = 1
  /\ \E id \in keys(runContext) :
       /\ testRun[id].state = "passed"
       /\ id \in runContext.processedMethodTests
       /\ id \notin runContext.failedMethodTests

\* C17: in every state of a parsing run in which a method has been recorded
\* failed, consuming a passed line that names that method alone reports it
\* passed, with the method in processed and failed still within processed.
C17_PassedOverwritesFailed ==
  pc = "streaming" =>
    \A line \in OutputLines, id \in runContext.failedMethodTests :
      (passedLine(line) /\ candidates(runContext, lineMethodName(line)) = {id}) =>
        LET st == parseOutputLine(line, [testRun |-> testRun,
                                         runContext |-> runContext])
        IN /\ st.testRun[id].state = "passed"
           /\ id \in st.runContext.processedMethodTests
           /\ st.runContext.failedMethodTests
                \subseteq st.runContext.processedMethodTests

\* C17 witness: a method that was recorded failed is now reported passed
C17_Witness ==
  /\ pc = "streaming"
  /\ \E id \in runContext.failedMethodTests : testRun[id].state = "passed"

\* the segments of a path
segments(p) == split(p, Slash)

\* the segment that follows the segment Tests of a path, or undefined
folderAfterTests(p) ==
  LET segs == segments(p)
      found == {i \in 1..Len(segs) - 1 : segs[i] = <<"Tests">>}
  IN IF found = {} THEN undefined
     ELSE segs[(CHOOSE i \in found : \A j \in found : i <= j) + 1]

\* the items of the queue the resolver does not pass over
resolvable == SelectSeq(queue, hasTestItemContext)

\* the nearest directory above an item's file that holds a Package.swift
packageDirsAbove(id) ==
  {dir \in fileSystem.packages : startsWith(fsPath(id), dir \o <<Slash>>)}
nearestPackage(id) ==
  CHOOSE dir \in packageDirsAbove(id) :
    \A other \in packageDirsAbove(id) : Len(other) <= Len(dir)

\* the metadata query failed: the command threw or its output has no targets
queryFailed == fileSystem.dump.threw \/ ~fileSystem.dump.hasTargets

\* the test targets of the dump whose directory covers an item's file
coveringTargets(id) ==
  testTargetNames(fileSystem.dump.targets, nearestPackage(id), fsPath(id))

\* C18 as stated: after a resolution in a workspace without any
\* Package.swift, every item of the queue with a file under
\* Tests/<name>/ has <name> as its target.
C18_NoManifestYieldsFolderName ==
  (pc = "resolved" /\ fileSystem.packages = {}) =>
    \A i \in 1..Len(resolvable) :
      folderAfterTests(fsPath(resolvable[i])) # undefined =>
        resolution.spmTarget[resolvable[i]] = folderAfterTests(fsPath(resolvable[i]))

\* C18 as amended: after a resolution in a workspace without any
\* Package.swift no item has a target and nothing was returned: every
\* directory from the file's up to the workspace root is cached as empty,
\* and the path convention is not applied.
C18_NoManifestNoTarget ==
  (pc = "resolved" /\ fileSystem.packages = {}) =>
    /\ \A id \in DOMAIN resolution.spmTarget : resolution.spmTarget[id] = undefined
    /\ resolution.result = undefined
    /\ \A dir \in DOMAIN resolution.pathCache : resolution.pathCache[dir] = <<>>
    /\ \A i \in 1..Len(resolvable) :
         {dirname(fsPath(resolvable[i])), WorkspacePath}
           \subseteq DOMAIN resolution.pathCache

\* C18 witness: a resolution has returned in a workspace without any
\* Package.swift, for a queue with the file Tests/MyAppTests/Foo.swift
C18_Witness ==
  /\ pc = "resolved"
  /\ fileSystem.packages = {}
  /\ \E i \in 1..Len(resolvable) :
       /\ folderAfterTests(fsPath(resolvable[i])) = MyAppTests
       /\ endsWith(fsPath(resolvable[i]), <<"Foo", ".swift">>)

C20_EveryNodeAttempted ==
  pc = "resolved" =>
    \A i \in 1..Len(resolvable) : resolvable[i] \in Range(resolution.searched)

(***************************************************************************)
(* Properties of discovery.                                                *)
(***************************************************************************)
\* C21: a change of a test file (created, deleted or saved) starts a rescan
\* only through the debounce window: every rescan under way was started by
\* the debounce timer expiring (or is the scan of the constructor), so that a
\* burst of events in one window starts one rescan, after the last of them.
C21_RescanOnlyThroughDebounce ==
  \A i \in 1..Len(scans) : scans[i].trigger \in {"constructor", "timer"}

\* the calls of discoverUITests that ran to their end, in the order they ended
completedScans == SelectSeq(scanLog, LAMBDA entry : entry.completed)

\* C22: a rescan rebuilds the tree atomically: whatever is under way, the
\* roots of the controller are the complete tree of the last rescan that ran
\* to its end (the empty tree of the new controller before any has).
C22_TreeIsAlwaysComplete ==
  controllerItems =
    IF completedScans = <<>> THEN <<>>
    ELSE completedScans[Len(completedScans)].shown

\* C23: when rescans overlap, once none is under way and the one that ended
\* last ran to its end, the roots of the controller are the domain groups
\* that this last rescan computed.
C23_LastCompletedScanWins ==
  (scans = <<>> /\ scanLog # <<>> /\ scanLog[Len(scanLog)].completed) =>
    controllerItems = scanLog[Len(scanLog)].result

\* two rescans that overlapped have both run to their end, with different
\* domain groups, and no rescan is under way
C23_Witness ==
  /\ scans = <<>>
  /\ scanLog # <<>>
  /\ scanLog[Len(scanLog)].completed
  /\ scanLog[Len(scanLog)].overlapped
  /\ \E j \in 1..Len(scanLog) - 1 :
       /\ scanLog[j].completed
       /\ scanLog[j].overlapped
       /\ scanLog[j].result # scanLog[Len(scanLog)].result
       /\ scanLog[j].result # <<>>

\* the number of items of a collection that have an id
occurrences(coll, id) == Cardinality({i \in 1..Len(coll) : coll[i].id = id})

\* the children of the item of a collection that has an id
childrenOf(coll, id) == coll[indexOfId(coll, id, 1)].children

\* the test classes of the documents a rescan read: the classes of a file
\* of the expected structure that inherit from BaseTest and have a body,
\* each with the domain and the test type of its file
discoveredClasses(input) ==
  {[domain |-> split(relative(UITestsPath, input[i][1]), Slash)[1],
    testType |-> split(relative(UITestsPath, input[i][1]), Slash)[2],
    className |-> input[i][2].classes[j].className] :
     <<i, j>> \in {<<i, j>> \in (1..Len(input)) \X (1..2) :
                     /\ j <= Len(input[i][2].classes)
                     /\ inheritsBaseTest(input[i][2].classes[j])
                     /\ input[i][2].classes[j].hasBody}}

\* C24: after a rescan has run to its end, the tree it left has exactly one
\* domain node at the root for the domain of every discovered class, exactly
\* one test type node under it for its (domain, test type) pair and exactly
\* one class node under that for its class id, also when several files
\* declare the same class in the same test type.
C24_OneNodePerGroupAndClass ==
  \A e \in 1..Len(scanLog) :
    scanLog[e].completed =>
      \A c \in discoveredClasses(scanLog[e].input) :
        /\ occurrences(scanLog[e].shown, domainId(c.domain)) = 1
        /\ occurrences(childrenOf(scanLog[e].shown, domainId(c.domain)),
                       testTypeId(c.domain, c.testType)) = 1
        /\ occurrences(childrenOf(childrenOf(scanLog[e].shown, domainId(c.domain)),
                                  testTypeId(c.domain, c.testType)),
                       classId(c)) = 1

\* a rescan ran to its end after reading two files that declare the same
\* class in the same test type, and a class of another domain
C24_Witness ==
  \E e \in 1..Len(scanLog) :
    /\ scanLog[e].completed
    /\ \E i, j \in 1..Len(scanLog[e].input) :
         /\ i # j
         /\ discoveredClasses(<<scanLog[e].input[i]>>) # {}
         /\ discoveredClasses(<<scanLog[e].input[i]>>)
              = discoveredClasses(<<scanLog[e].input[j]>>)
    /\ \E c, d \in discoveredClasses(scanLog[e].input) : c.domain # d.domain

\* C25: files of the expected structure without a recognized test class
\* contribute no nodes: a rescan that ran to its end and read no recognized
\* class leaves an empty tree, without domain or test type nodes.
C25_NoClassesNoNodes ==
  \A e \in 1..Len(scanLog) :
    (scanLog[e].completed /\ discoveredClasses(scanLog[e].input) = {}) =>
      scanLog[e].shown = <<>>

(***************************************************************************)
(* Properties of updateTestItems.                                          *)
(***************************************************************************)
RECURSIVE nodesUnder(_, _)
\* the nodes of a tree below a parent, each with its id, the file or the
\* directory it comes from, its parent and the ids of its children
nodesUnder(coll, parent) ==
  UNION {{[id |-> coll[i].id, uri |-> coll[i].uri, parent |-> parent,
           children |-> [k \in 1..Len(coll[i].children) |-> coll[i].children[k].id]]}
           \cup nodesUnder(coll[i].children, coll[i].id) :
         i \in 1..Len(coll)}

\* the nodes of a tree
treeNodes(coll) == nodesUnder(coll, undefined)

\* the ids of the nodes of a tree that come from a file
idsOfFile(coll, filePath) == {n.id : n \in {n \in treeNodes(coll) : n.uri = filePath}}

\* C26: updateTestItems(document) leaves the nodes of other files alone:
\* every node that comes from another file is in the tree after the call
\* with the id, the parent and the children it had before it, also when
\* another file declares a class of the same name.
C26_UpdateLeavesOtherFilesAlone ==
  [][\A filePath \in Documents :
       DocumentUpdated(filePath) =>
         {n \in treeNodes(controllerItems) : n.uri # filePath}
           \subseteq treeNodes(controllerItems')]_vars

\* C27: on a tree that a full rescan produced, after one file has changed,
\* updateTestItems on that file leaves for it the node ids that a full rescan
\* of the disk yields for it, and with them no node of its previous content.
C27_UpdateEqualsRescanForFile ==
  [][\A filePath \in Documents :
       \A files \in InitialDisks :
         ( /\ DocumentUpdated(filePath)
           /\ DOMAIN files = DOMAIN disk
           /\ controllerItems = discoverAll(files)
           /\ files[filePath] # disk[filePath]
           /\ \A other \in DOMAIN disk \ {filePath} : files[other] = disk[other] )
         => idsOfFile(controllerItems', filePath)
              = idsOfFile(discoverAll(disk), filePath)]_vars

RECURSIVE idsAndLabels(_, _)
\* the id and the label of every node of a tree, with the level it is at
idsAndLabels(coll, level) ==
  UNION {{[id |-> coll[i].id, label |-> coll[i].label, level |-> level]}
           \cup idsAndLabels(coll[i].children, level + 1) :
         i \in 1..Len(coll)}

\* C28: two full rescans that ran to their end over the same input (the
\* same files, in the same order, with the same content) left trees with the
\* same node ids and labels at every level.
C28_SameInputSameTree ==
  \A e, f \in 1..Len(scanLog) :
    (scanLog[e].completed /\ scanLog[f].completed
       /\ scanLog[e].input = scanLog[f].input) =>
      idsAndLabels(scanLog[e].shown, 1) = idsAndLabels(scanLog[f].shown, 1)

\* two rescans read the same input, which holds test classes, and between
\* them a rescan over another input left another tree
C28_Witness ==
  \E e, g, f \in 1..Len(scanLog) :
    /\ e < g /\ g < f
    /\ scanLog[e].completed /\ scanLog[g].completed /\ scanLog[f].completed
    /\ scanLog[e].input = scanLog[f].input
    /\ discoveredClasses(scanLog[e].input) # {}
    /\ idsAndLabels(scanLog[g].shown, 1) # idsAndLabels(scanLog[e].shown, 1)

RECURSIVE flatIds(_)
\* the ids of the nodes of a tree, one for every node
flatIds(coll) ==
  IF coll = <<>> THEN <<>>
  ELSE <<Head(coll).id>> \o flatIds(Head(coll).children) \o flatIds(Tail(coll))

\* an id is another one followed by something
strictlyExtends(id, prefix) == startsWith(id, prefix) /\ Len(id) > Len(prefix)

\* in a tree every method id is the id of its class followed by '.' and the
\* method name, which is not empty, every class id strictly extends the id of
\* its test type and every test type id the id of its domain
idsExtendParent(coll) ==
  \A d \in Range(coll) :
    \A t \in Range(d.children) :
      /\ strictlyExtends(t.id, d.id)
      /\ \A c \in Range(t.children) :
           /\ strictlyExtends(c.id, t.id)
           /\ \A m \in Range(c.children) :
                /\ m.id = c.id \o <<Dot>> \o m.label
                /\ m.label # <<>>

\* no two nodes of a tree have the same id
idsUnique(coll) ==
  LET ids == flatIds(coll) IN
  \A i, j \in 1..Len(ids) : i # j => ids[i] # ids[j]

\* the directories behind the domains and the test types of a tree have
\* names without ':' and '.'
plainDirectoryNames(coll) ==
  \A d \in Range(coll) :
    /\ ~includes(d.label, Colon) /\ ~includes(d.label, Dot)
    /\ \A t \in Range(d.children) :
         ~includes(t.label, Colon) /\ ~includes(t.label, Dot)

\* C29 as stated: whatever the files, in the tree of the controller every
\* method id is the id of its class followed by '.' and the method name,
\* class ids strictly extend test type ids and these domain ids, and no two
\* nodes have the same id.
C29_IdsExtendParentAndAreUnique ==
  idsExtendParent(controllerItems) /\ idsUnique(controllerItems)

\* C29, amended: the same, for domain and test type directories whose names
\* hold neither ':' nor '.'.
C29_IdsUniqueForPlainNames ==
  plainDirectoryNames(controllerItems) =>
    idsExtendParent(controllerItems) /\ idsUnique(controllerItems)

\* the tree has two domains of plain names, and a class whose file declares
\* the same test function twice
C29_Witness ==
  /\ Len(controllerItems) >= 2
  /\ plainDirectoryNames(controllerItems)
  /\ \E d \in Range(controllerItems) : \E t \in Range(d.children) :
       \E c \in Range(t.children) : \E m \in Range(c.children) :
         /\ m.label = <<"testB">>
         /\ \E filePath \in Documents :
              /\ c.uri = filePath
              /\ disk[filePath] = FooWithB

(***************************************************************************)
(* Properties of the selectors of a batch run.                             *)
(***************************************************************************)
\* the selector the spec gives a node of the tree: the domain name joined to
\* the test type name for a test type, followed by the class name for a
\* class, and by the class and the method name for a method
selectorOf(id) ==
  IF id \in TestTypeIds
    THEN LET t == CHOOSE t \in Range(DiscoveredTestTypes) :
                    testTypeId(t.domain, t.testType) = id
         IN t.domain \o t.testType
  ELSE IF id \in ClassIds
    THEN LET c == CHOOSE c \in Range(DiscoveredClasses) : classId(c) = id
         IN c.domain \o c.testType \o <<Slash>> \o c.className
  ELSE LET c == CHOOSE c \in Range(DiscoveredClasses) :
                  \E k \in 1..Len(c.methods) : methodId(c, c.methods[k]) = id
           k == CHOOSE k \in 1..Len(c.methods) : methodId(c, c.methods[k]) = id
       IN c.domain \o c.testType \o <<Slash>> \o c.className
            \o <<Slash>> \o c.methods[k]

\* C30: while the invocation of a batch run is under way, its -only-testing
\* selectors are one per valid test, in the order of the selection: the
\* target for a test type, target/class for a class, target/class/method
\* for a method, the target being the domain name joined to the test type.
C30_BatchSelectors ==
  (pc = "streaming" /\ kind = "batch") =>
    invocations[Len(invocations)].onlyTesting
      = [i \in 1..Len(validTests) |-> selectorOf(validTests[i])]

(***************************************************************************)
(* Properties of the parser, continued.                                    *)
(***************************************************************************)
\* a status line of either dialect with the status started
startedLine(line) ==
  \/ line.ios.matched /\ line.ios.status[1] = "started"
  \/ ~line.ios.matched /\ line.macos.matched /\ line.macos.status[1] = "started"

\* C31: in every state of a parsing run, consuming a started status line of
\* either dialect whose method name is that of a key of the run context
\* reports a key of that name started and leaves the run context (processed,
\* failed and the inline errors) as it was.
C31_StartedLineLeavesContext ==
  pc = "streaming" =>
    \A line \in OutputLines :
      (startedLine(line) /\ candidates(runContext, lineMethodName(line)) # {}) =>
        LET st == parseOutputLine(line, [testRun |-> testRun,
                                         runContext |-> runContext])
        IN /\ st.runContext = runContext
           /\ \E id \in candidates(runContext, lineMethodName(line)) :
                st.testRun[id].state = "started"

\* C31 witness: a method that a line had recorded processed and failed, with
\* a stored inline error, is reported started again and is still recorded so
C31_Witness ==
  /\ pc = "streaming"
  /\ \E id \in runContext.failedMethodTests :
       /\ testRun[id].state = "started"
       /\ id \in runContext.processedMethodTests
       /\ runContext.inlineErrorMap[id] # NoError

\* a line with the matches after its first one taken away
firstMatchOnly(line) ==
  IF line.ios.matched THEN [line EXCEPT !.macos = NoMatch, !.inline = NoMatch]
  ELSE IF line.macos.matched THEN [line EXCEPT !.inline = NoMatch]
  ELSE line

\* C32: in every state of a parsing run a line has the effect of its first
\* match alone, the patterns taken in the order mobile status, desktop
\* status, inline error; and a line that no pattern matches, or whose first
\* match names a method that no key of the run context ends in, changes
\* neither the run context nor any reported status.
C32_FirstMatchOnly ==
  pc = "streaming" =>
    \A line \in OutputLines :
      LET st == [testRun |-> testRun, runContext |-> runContext] IN
      /\ parseOutputLine(line, st) = parseOutputLine(firstMatchOnly(line), st)
      /\ (lineMethodName(line) = undefined
            \/ candidates(runContext, lineMethodName(line)) = {}) =>
           parseOutputLine(line, st) = st

\* C32 witness: the one line consumed was matched by all three patterns and
\* changed the run as its mobile status match alone does
C32_Witness ==
  /\ pc = "streaming"
  /\ lines = 1
  /\ \E line \in MixedLines :
       LET st == [testRun |-> StreamStart(request).testRun,
                  runContext |-> StreamStart(request).runContext]
       IN /\ line.ios.matched /\ line.macos.matched /\ line.inline.matched
          /\ [testRun |-> testRun, runContext |-> runContext]
               = parseOutputLine(line, st)
          /\ runContext # st.runContext
          /\ runContext.failedMethodTests = {}
          /\ \A id \in keys(runContext) : runContext.inlineErrorMap[id] = NoError

\* C33: a line never takes a method id out of the failed set of the run
\* context, and once the set holds an id getOverallStatus is failed after
\* every line, also when the method is reported passed afterwards.
C33_FailedIsNeverRemoved ==
  [][(pc = "streaming" /\ pc' = "streaming") =>
       /\ runContext.failedMethodTests \subseteq runContext'.failedMethodTests
       /\ runContext.failedMethodTests # {} =>
            getOverallStatus(runContext') = "failed"]_vars

\* C33 witness: the last status reported for every method of the run context
\* is passed, one of them is in the failed set and getOverallStatus is failed
C33_Witness ==
  /\ pc = "streaming"
  /\ keys(runContext) # {}
  /\ \A id \in keys(runContext) : testRun[id].state = "passed"
  /\ runContext.failedMethodTests # {}
  /\ getOverallStatus(runContext) = "failed"

(***************************************************************************)
(* Properties of the run entry points, continued.                          *)
(***************************************************************************)
\* C34: every invocation of the external tool issued by the batch path of
\* runTests carries at least one -only-testing selector.
C34_BatchInvocationHasSelector ==
  kind = "batch" =>
    \A i \in 1..Len(invocations) : invocations[i].onlyTesting # <<>>

\* the ids of this.controller.items, in their order
controllerItemIds(coll) == [i \in 1..Len(coll) |-> coll[i].id]

\* runTestsWithoutBuilding of a request without include on a tree, never
\* cancelled: whether the external tool is invoked, and the nodes of the
\* queue that are reported a status.  A root has no TestItemContext, so a
\* single valid one is reported skipped; several go to the batch path.
runTestsWithoutBuildingOnRoots(coll) ==
  LET all == controllerItemIds(coll)
      keep(test) ==
        LET parts == split(test, Dot) IN
        IF Len(parts) < 2 \/ parts[2] = <<>> THEN TRUE
        ELSE ~(\E i \in 1..Len(all) : all[i] = parts[1])
      roots == SelectSeq(all, keep)
      valid == SelectSeq(roots, isValidTestItem)
  IN IF Len(valid) = 0 THEN [invoked |-> FALSE, reported |-> {}]
     ELSE IF Len(valid) = 1 THEN [invoked |-> FALSE, reported |-> {valid[1]}]
     ELSE [invoked |-> TRUE, reported |-> Range(valid)]

\* no domain directory of a tree has a ':' in its name
plainDomainNames(coll) == \A d \in Range(coll) : ~includes(d.label, Colon)

\* C35 as stated: whatever the tree, a run request without a selection
\* neither invokes the external tool nor reports a status.
C35_RunEverythingDoesNothing ==
  runTestsWithoutBuildingOnRoots(controllerItems)
    = [invoked |-> FALSE, reported |-> {}]

\* C35, amended: a run request without a selection neither invokes the
\* external tool nor reports a status when no domain directory has a ':' in
\* its name.
C35_RunEverythingDoesNothingForPlainNames ==
  plainDomainNames(controllerItems) =>
    runTestsWithoutBuildingOnRoots(controllerItems)
      = [invoked |-> FALSE, reported |-> {}]

\* the tree has two domains of plain names with a test class each, and a run
\* of everything does nothing
C35_Witness ==
  /\ Len(controllerItems) >= 2
  /\ plainDomainNames(controllerItems)
  /\ \A d \in Range(controllerItems) :
       \E t \in Range(d.children) : t.children # <<>>
  /\ ~runTestsWithoutBuildingOnRoots(controllerItems).invoked
  /\ runTestsWithoutBuildingOnRoots(controllerItems).reported = {}

\* the statuses that end a test
terminalStatuses == {"passed", "failed", "skipped"}

\* C36: when runMethodTest, runClassTest or the batch path of runTests ends,
\* whether the invocation returned or threw, every method node of its run
\* context has been reported passed or failed by a line (it is processed)
\* or has the status failed or skipped.
C36_EveryMethodGetsTerminalStatus ==
  [][Len(finished') > Len(finished) =>
       LET r == finished'[Len(finished')]
       IN \A id \in keys(r.runContext) :
            \/ id \in r.runContext.processedMethodTests
            \/ testRun'[id].state \in terminalStatuses]_vars

\* a batch run whose invocation threw has ended with a method that a line
\* reported and another one that no line reported, now skipped
C36_Witness ==
  /\ pc = "done"
  /\ \E i \in 1..Len(finished) :
       /\ finished[i].kind = "batch"
       /\ finished[i].threw
       /\ finished[i].runContext.processedMethodTests # {}
       /\ \E id \in keys(finished[i].runContext)
                      \ finished[i].runContext.processedMethodTests :
            testRun[id].state = "skipped"

(***************************************************************************)
(* Properties of the inline errors.                                        *)
(***************************************************************************)
\* the lines only the inline error pattern matches, and the lines of either
\* dialect that report a method failed
inlineErrorLines ==
  {line \in OutputLines :
     ~line.ios.matched /\ ~line.macos.matched /\ line.inline.matched}
failedLines(methodName) ==
  {line \in OutputLines \ MixedLines :
     /\ lineMethodName(line) = methodName
     /\ \/ line.ios.matched /\ line.ios.status[1] = "failed"
        \/ line.macos.matched /\ line.macos.status[1] = "failed"}

\* the message of a failure that carries an inline error
messageOf(match) ==
  [text |-> match.errorMessage, fileName |-> match.filePath,
   line |-> match.lineNumber - 1]

\* C37: in every state of a parsing run, after two inline error lines for a
\* method of the run context a failed line of the method reports the error
\* of the second one, a second failed line reports it again, and the error
\* is still stored after both.
C37_LatestInlineErrorIsReported ==
  pc = "streaming" =>
    \A first, second \in inlineErrorLines :
      LET methodName == first.inline.methodName
          id == findTestIdByMethodName(runContext, methodName)
      IN (second.inline.methodName = methodName /\ id # undefined) =>
           \A fail \in failedLines(methodName) :
             LET st2 == parseOutputLine(second,
                          parseOutputLine(first,
                            [testRun |-> testRun, runContext |-> runContext]))
                 st3 == parseOutputLine(fail, st2)
                 st4 == parseOutputLine(fail, st3)
             IN /\ st3.testRun[id].state = "failed"
                /\ st3.testRun[id].message = messageOf(second.inline)
                /\ st4.testRun[id].message = messageOf(second.inline)
                /\ st4.runContext.inlineErrorMap = st2.runContext.inlineErrorMap

\* C37 witness: the tool wrote two inline error lines with different errors
\* for a method and then a failed line: the method has failed with the
\* second error, which is still stored
C37_Witness ==
  /\ pc = "streaming"
  /\ lines = 3
  /\ \E first, second \in inlineErrorLines :
       /\ first.inline.methodName = second.inline.methodName
       /\ first.inline.errorMessage # second.inline.errorMessage
       /\ \E fail \in failedLines(first.inline.methodName) :
            LET id == findTestIdByMethodName(runContext, first.inline.methodName)
            IN /\ id # undefined
               /\ [testRun |-> testRun, runContext |-> runContext]
                    = parseOutputLine(fail,
                        parseOutputLine(second,
                          parseOutputLine(first,
                            [testRun |-> StreamStart(request).testRun,
                             runContext |-> StreamStart(request).runContext])))
               /\ testRun[id].message = messageOf(second.inline)
               /\ runContext.inlineErrorMap[id].message = second.inline.errorMessage

(***************************************************************************)
(* Properties of overlapping rescans.                                      *)
(***************************************************************************)
\* the entry of the call of discoverUITests that was made last
latestTriggered ==
  CHOOSE entry \in Range(scanLog) :
    \A other \in Range(scanLog) : other.seq <= entry.seq

\* C38: when rescans overlapped and all of them have run to their end, the
\* tree is the result of the rescan that was triggered last.
C38_LastTriggeredScanWins ==
  (/\ scans = <<>>
   /\ scanLog # <<>>
   /\ \A j \in 1..Len(scanLog) : scanLog[j].completed) =>
    controllerItems = latestTriggered.result

(***************************************************************************)
(* Properties of the current test id.                                      *)
(***************************************************************************)
\* C39: while no run is in progress (no run profile has been invoked, or the
\* handler has returned or thrown) the current test id is undefined.
C39_NoRunNoCurrentTestId ==
  pc \in {"idle", "done", "thrown"} => currentTestId = undefined

\* C39 witness: the build profile has run its items one by one, the
\* invocation of one of them threw, and no current test id is left
C39_Witness ==
  /\ pc = "done"
  /\ profile = "build"
  /\ \E i \in 1..Len(finished) : finished[i].threw
  /\ currentTestId = undefined

(***************************************************************************)
(* Test plan runs: the manager has just been constructed; the plans are    *)
(* refreshed on what refresh may find, and a plan is picked when the test  *)
(* configurations are asked.                                               *)
(***************************************************************************)
\* refresh runs to its end
Refresh(scheme) ==
  /\ LET r == refresh(testPlans, selectedTestPlan, scheme)
     IN /\ testPlans' = r.testPlans
        /\ selectedTestPlan' = r.selectedTestPlan
        /\ refreshExit' = r.exit
  /\ UNCHANGED <<discoveryVars, runVars>>

\* askTestingConfigurations: askTestPlan returns the i-th plan
TestPlanPicked(i) ==
  /\ i \in 1..Len(testPlans)
  /\ selectedTestPlan' = setSelectedTestPlan(selectedTestPlan, testPlans[i])
  /\ UNCHANGED <<testPlans, refreshExit, discoveryVars, runVars>>

NextPlans ==
  \/ \E scheme \in Schemes : Refresh(scheme)
  \/ \E i \in 1..MaxReferences : TestPlanPicked(i)

SpecPlans == Init /\ [][NextPlans]_vars

\* the selected plan is undefined or has the path of a plan of testPlans
selectionIsListed(plans, current) ==
  current = NoPlan \/ findByPath(plans, current.path)

\* C40: once refresh has run to its end, whatever the path it left on, the
\* selected test plan is undefined or has the path of an entry of
\* testPlans.
C40_SelectedPlanIsListed ==
  refreshExit # "none" => selectionIsListed(testPlans, selectedTestPlan)

====
